---- MODULE Spec2Model ----
(***************************************************************************)
(* Model of visual/utils/screenshot_compare.py (class ScreenshotCompare):  *)
(* the baseline store, the diff directory and the comparison routines.     *)
(*                                                                         *)
(* A file is a record: absent, garbage (not decodable) or an encoded       *)
(* image (format + mode + size + pixel data, row-major).  A Python float   *)
(* is modelled by the reduced fraction it is the rounding of; for the      *)
(* small numerators and denominators of the model two quotients are the    *)
(* same float exactly when they are the same fraction, and <= on floats    *)
(* is <= on the fractions.                                                 *)
(***************************************************************************)
EXTENDS Integers, Sequences, FiniteSets, TLC

VARIABLES files, last, workers

vars == <<files, last, workers>>

(***************************************************************************)
(* Bounds of the model.                                                    *)
(***************************************************************************)
\* Largest number of pixels (width * height) of a generated image.
MaxPixels == 2

\* Thresholds are fractions of denominator ThresholdDen.
ThresholdDen == 1

\* Largest retry count (settings.api_retry_count) of an API client.
MaxRetries == 2

\* Largest number of products on the home page.
MaxProducts == 7

(***************************************************************************)
(* Floats as reduced fractions <<numerator, denominator>>.                 *)
(***************************************************************************)
RECURSIVE GCD(_, _)
GCD(a, b) == IF b = 0 THEN a ELSE GCD(b, a % b)

Abs(x) == IF x < 0 THEN -x ELSE x

\* Python's int / int (true division) for a positive divisor.
TrueDiv(n, d) ==
  LET g == GCD(Abs(n), d)
  IN  <<n \div g, d \div g>>

\* Python's float <= float.
FloatLE(a, b) == a[1] * b[2] <= b[1] * a[2]

\* A threshold that is no number (None, a string): it has no denominator,
\* and comparing a float with it raises TypeError.
NotANumber == <<0, 0>>
IsNumber(a) == a[2] # 0

\* The literals 0.0 and 1.0.
Zero == <<0, 1>>
One == <<1, 1>>

\* Python's None (also str(diff_path) if diff_path else None).
None == "None"

(***************************************************************************)
(* Images (PIL.Image): mode, size <<width, height>>, data (one tuple of    *)
(* band values per pixel, row by row).                                     *)
(***************************************************************************)
Image(mode, size, data) == [mode |-> mode, size |-> size, data |-> data]

NoImage == Image("", <<0, 0>>, <<>>)

\* Image.getpixel((x, y)), 0-based.
getpixel(img, x, y) == img.data[y * img.size[1] + x + 1]

\* One pixel converted to RGB: L replicates the grey level, RGBA drops alpha.
PixelToRGB(mode, p) ==
  CASE mode = "L" -> <<p[1], p[1], p[1]>>
    [] mode = "RGB" -> p
    [] mode = "RGBA" -> <<p[1], p[2], p[3]>>

\* Image.convert("RGB")
convertRGB(img) ==
  Image("RGB", img.size, [i \in 1..Len(img.data) |-> PixelToRGB(img.mode, img.data[i])])

\* ImageChops.difference on two RGB images of one size: |a - b| per channel.
ImageChops_difference(img1, img2) ==
  Image("RGB", img1.size,
        [i \in 1..Len(img1.data) |->
           [c \in 1..3 |-> Abs(img1.data[i][c] - img2.data[i][c])]])

\* sum(sum(pixel) for pixel in diff.getdata())
RECURSIVE SumData(_)
SumData(data) ==
  IF data = <<>> THEN 0
  ELSE data[1][1] + data[1][2] + data[1][3] + SumData(Tail(data))

(***************************************************************************)
(* Files.                                                                  *)
(***************************************************************************)
Absent == [kind |-> "absent", format |-> "", img |-> NoImage]
Garbage == [kind |-> "garbage", format |-> "", img |-> NoImage]
ImageFile(format, img) == [kind |-> "image", format |-> format, img |-> img]

\* A directory entry (glob("*.png") also yields a directory of such a name).
Directory == [kind |-> "directory", format |-> "", img |-> NoImage]

\* Path.exists()
exists(fs, path) == fs[path].kind # "absent"

\* Results of a call: a returned tuple, or a raised exception.
Return(v) == [exc |-> "none", val |-> v]
Raise(e) == [exc |-> e, val |-> <<>>]

\* Image.open(path): the decoded image, or the error PIL raises.
Image_open(fs, path) ==
  CASE fs[path].kind = "absent" -> Raise("FileNotFoundError")
    [] fs[path].kind = "garbage" -> Raise("UnidentifiedImageError")
    [] fs[path].kind = "directory" -> Raise("IsADirectoryError")
    [] OTHER -> Return(fs[path].img)

\* img.save(path) for a path ending in .png: the PNG encoding of the image.
Image_save(fs, img, path) == [fs EXCEPT ![path] = ImageFile("PNG", img)]

(***************************************************************************)
(* ScreenshotCompare.__init__: the two directories, and the paths the      *)
(* methods derive from a baseline name.                                    *)
(***************************************************************************)
baseline_dir == "visual/baselines"
diff_dir == "visual/diffs"

\* self.baseline_dir / f"{name}.png"
BaselinePath(name) == baseline_dir \o "/" \o name \o ".png"

\* self.diff_dir / f"{name}_diff.png"
DiffPath(name) == diff_dir \o "/" \o name \o "_diff.png"

\* self.diff_dir / "temp_region1.png", self.diff_dir / "temp_region2.png"
temp_path1 == diff_dir \o "/" \o "temp_region1.png"
temp_path2 == diff_dir \o "/" \o "temp_region2.png"

(***************************************************************************)
(* compare_images(image1_path, image2_path, threshold)                     *)
(***************************************************************************)
\* The difference ratio of two decoded images of one size.
RatioOf(img1, img2) ==
  TrueDiv(SumData(ImageChops_difference(convertRGB(img1), convertRGB(img2)).data),
          img1.size[1] * img1.size[2] * 3 * 255)

FloatLT(a, b) == a[1] * b[2] < b[1] * a[2]

\* Variant: is_similar = difference < threshold.
compare_images_strict(fs, image1_path, image2_path, threshold) ==
  LET o1 == Image_open(fs, image1_path)
      o2 == Image_open(fs, image2_path)
  IN  IF o1.exc # "none" THEN Raise(o1.exc)
      ELSE IF o2.exc # "none" THEN Raise(o2.exc)
      ELSE IF o1.val.size # o2.val.size THEN Return(<<FALSE, One>>)
      ELSE Return(<<FloatLT(RatioOf(o1.val, o2.val), threshold), RatioOf(o1.val, o2.val)>>)

\* Variant: is_similar = threshold <= difference.
compare_images_inverted(fs, image1_path, image2_path, threshold) ==
  LET o1 == Image_open(fs, image1_path)
      o2 == Image_open(fs, image2_path)
  IN  IF o1.exc # "none" THEN Raise(o1.exc)
      ELSE IF o2.exc # "none" THEN Raise(o2.exc)
      ELSE IF o1.val.size # o2.val.size THEN Return(<<FALSE, One>>)
      ELSE Return(<<FloatLE(threshold, RatioOf(o1.val, o2.val)), RatioOf(o1.val, o2.val)>>)

\* Variant: a size mismatch sets the ratio to 1.0 and still applies the threshold.
compare_images_mismatch_thresholded(fs, image1_path, image2_path, threshold) ==
  LET o1 == Image_open(fs, image1_path)
      o2 == Image_open(fs, image2_path)
  IN  IF o1.exc # "none" THEN Raise(o1.exc)
      ELSE IF o2.exc # "none" THEN Raise(o2.exc)
      ELSE IF o1.val.size # o2.val.size THEN Return(<<FloatLE(One, threshold), One>>)
      ELSE Return(<<FloatLE(RatioOf(o1.val, o2.val), threshold), RatioOf(o1.val, o2.val)>>)

\* Variant: an input that cannot be opened counts as a complete mismatch.
compare_images_lenient(fs, image1_path, image2_path, threshold) ==
  LET o1 == Image_open(fs, image1_path)
      o2 == Image_open(fs, image2_path)
  IN  IF o1.exc # "none" \/ o2.exc # "none" THEN Return(<<FALSE, One>>)
      ELSE IF o1.val.size # o2.val.size THEN Return(<<FALSE, One>>)
      ELSE Return(<<FloatLE(RatioOf(o1.val, o2.val), threshold), RatioOf(o1.val, o2.val)>>)

\* Variant: a path compared with itself is similar without being opened.
compare_images_same_path(fs, image1_path, image2_path, threshold) ==
  IF image1_path = image2_path THEN Return(<<TRUE, Zero>>)
  ELSE
    LET o1 == Image_open(fs, image1_path)
        o2 == Image_open(fs, image2_path)
    IN  IF o1.exc # "none" THEN Raise(o1.exc)
        ELSE IF o2.exc # "none" THEN Raise(o2.exc)
        ELSE IF o1.val.size # o2.val.size THEN Return(<<FALSE, One>>)
        ELSE Return(<<FloatLE(RatioOf(o1.val, o2.val), threshold), RatioOf(o1.val, o2.val)>>)

\* Variant: the sum is normalised by width * height * 255, one channel short.
compare_images_per_pixel(fs, image1_path, image2_path, threshold) ==
  LET o1 == Image_open(fs, image1_path)
      o2 == Image_open(fs, image2_path)
  IN  IF o1.exc # "none" THEN Raise(o1.exc)
      ELSE IF o2.exc # "none" THEN Raise(o2.exc)
      ELSE IF o1.val.size # o2.val.size THEN Return(<<FALSE, One>>)
      ELSE
        LET difference ==
              TrueDiv(SumData(ImageChops_difference(convertRGB(o1.val),
                                                    convertRGB(o2.val)).data),
                      o1.val.size[1] * o1.val.size[2] * 255)
        IN  Return(<<FloatLE(difference, threshold), difference>>)

compare_images(fs, image1_path, image2_path, threshold) ==
  LET o1 == Image_open(fs, image1_path)
      o2 == Image_open(fs, image2_path)
  IN  IF o1.exc # "none" THEN Raise(o1.exc)
      ELSE IF o2.exc # "none" THEN Raise(o2.exc)
      ELSE
        LET img1 == convertRGB(o1.val)
            img2 == convertRGB(o2.val)
        IN  IF img1.size # img2.size THEN Return(<<FALSE, One>>)
            ELSE
              LET diff == ImageChops_difference(img1, img2)
                  diff_pixels == SumData(diff.data)
                  total_pixels == img1.size[1] * img1.size[2] * 3 * 255
                  difference == TrueDiv(diff_pixels, total_pixels)
                  is_similar == FloatLE(difference, threshold)
              IN  IF ~IsNumber(threshold) THEN Raise("TypeError")
                  ELSE Return(<<is_similar, difference>>)

(***************************************************************************)
(* create_diff_image(baseline_path, current_path, output_path)             *)
(***************************************************************************)
\* Image.resize(size) with the filter Pillow (7.0 and later) takes by default
\* for an RGB image, BICUBIC, computed as Pillow computes it on 8-bit bands:
\* a horizontal pass, then a vertical pass on its result, each a convolution
\* with coefficients normalised to sum 1 and rounded to 22 fractional bits.
\* An image of the size asked is returned as it is.
\* A function on 1..n as a sequence value, so that it is computed once.
Computed(f) == f \o <<>>

RECURSIVE SumSeq(_)
SumSeq(s) == IF s = <<>> THEN 0 ELSE s[1] + SumSeq(Tail(s))

\* The bicubic kernel (a = -0.5) at |t| = p / q, in units of 1 / (2 q^3):
\* 1.5|t|^3 - 2.5 t^2 + 1 below 1, -0.5|t|^3 + 2.5 t^2 - 4|t| + 2 below 2.
bicubic_filter(p, q) ==
  IF p < q THEN 3 * p * p * p - 5 * p * p * q + 2 * q * q * q
  ELSE IF p < 2 * q THEN 5 * p * p * q - p * p * p - 8 * p * q * q + 4 * q * q * q
  ELSE 0

\* A weight w of total ww as a fixed-point coefficient: w / ww * 2^22, rounded
\* to the nearest integer, halves away from zero.  (|w| / ww * 2^23 is
\* divided out 8, 8 and 7 bits at a time, within 32 bits.)
normalize_coeff(w, ww) ==
  LET a == Abs(w)
      r1 == (a % ww) * 256
      q1 == (a \div ww) * 256 + (r1 \div ww)
      r2 == (r1 % ww) * 256
      q2 == q1 * 256 + (r2 \div ww)
      r3 == (r2 % ww) * 128
      q3 == q2 * 128 + (r3 \div ww)
      r == (q3 + 1) \div 2
  IN  IF w < 0 THEN 0 - r ELSE r

\* The source positions xmin .. xmin + Len(k) - 1 and the coefficients k of
\* target position xx (0-based) when inSize values are resampled to outSize:
\* the kernel is centred at (xx + 0.5) * inSize / outSize and stretched by
\* the scale when the line shrinks.
precompute_coeffs(inSize, outSize, xx) ==
  LET m == IF inSize > outSize THEN inSize ELSE outSize
      lo == (2 * xx + 1) * inSize - 4 * m + outSize
      hi == ((2 * xx + 1) * inSize + 4 * m + outSize) \div (2 * outSize)
      xmin == IF lo < 0 THEN 0 ELSE lo \div (2 * outSize)
      xmax == IF hi > inSize THEN inSize ELSE hi
      w == Computed([x \in 1..(xmax - xmin) |->
                       bicubic_filter(Abs(2 * outSize * (x - 1 + xmin) + outSize
                                          - (2 * xx + 1) * inSize), 2 * m)])
      ww == SumSeq(w)
  IN  [xmin |-> xmin,
       k |-> Computed([x \in 1..(xmax - xmin) |-> normalize_coeff(w[x], ww)])]

\* clip8 of an accumulator: its integer part, cut to 0..255.
clip8(ss) ==
  IF ss < 0 THEN 0
  ELSE IF ss \div 4194304 > 255 THEN 255
  ELSE ss \div 4194304

\* One target value: the source values under the kernel, weighted, plus one
\* half, cut to 8 bits.
Convolve(line, c) ==
  clip8(2097152 + SumSeq([x \in 1..Len(c.k) |-> line[c.xmin + x] * c.k[x]]))

resize(img, size) ==
  IF img.size = size THEN img
  ELSE
    LET bands == 1..Len(img.data[1])
        w == img.size[1]
        h == img.size[2]
        kx == Computed([xx \in 1..size[1] |-> precompute_coeffs(w, size[1], xx - 1)])
        ky == Computed([yy \in 1..size[2] |-> precompute_coeffs(h, size[2], yy - 1)])
        horizontal ==
          IF size[1] = w THEN img.data
          ELSE Computed([i \in 1..(size[1] * h) |->
                  [c \in bands |->
                     Convolve([j \in 1..w |-> img.data[((i - 1) \div size[1]) * w + j][c]],
                              kx[((i - 1) % size[1]) + 1])]])
        vertical ==
          IF size[2] = h THEN horizontal
          ELSE [i \in 1..(size[1] * size[2]) |->
                  [c \in bands |->
                     Convolve([j \in 1..h |->
                                 horizontal[(j - 1) * size[1] + ((i - 1) % size[1]) + 1][c]],
                              ky[((i - 1) \div size[1]) + 1])]]
    IN  Image(img.mode, size, vertical)

\* diff.point(lambda x: x * 10): the lookup table is clipped to 8 bits.
point10(img) ==
  Image(img.mode, img.size,
        [i \in 1..Len(img.data) |->
           [c \in 1..3 |-> IF img.data[i][c] * 10 > 255 THEN 255
                           ELSE img.data[i][c] * 10]])

\* Variant: the three panels are pasted top to bottom.
Comparison_stacked(baseline, current, diff) ==
  LET w == baseline.size[1]
      h == baseline.size[2]
  IN  Image("RGB", <<w, h * 3>>,
            [i \in 1..(w * 3 * h) |->
               LET x == (i - 1) % w
                   y == (i - 1) \div w
               IN  IF y < h THEN getpixel(baseline, x, y)
                   ELSE IF y < 2 * h THEN getpixel(current, x, y - h)
                   ELSE getpixel(diff, x, y - 2 * h)])

\* Image.new("RGB", (3w, h)) with the three panels pasted left to right.
Comparison(baseline, current, diff) ==
  LET w == baseline.size[1]
      h == baseline.size[2]
  IN  Image("RGB", <<w * 3, h>>,
            [i \in 1..(w * 3 * h) |->
               LET x == (i - 1) % (w * 3)
                   y == (i - 1) \div (w * 3)
               IN  IF x < w THEN getpixel(baseline, x, y)
                   ELSE IF x < 2 * w THEN getpixel(current, x - w, y)
                   ELSE getpixel(diff, x - 2 * w, y)])

\* Variant: a file that already exists at output_path is kept.
create_diff_image_keep_existing(fs, baseline_path, current_path, output_path) ==
  LET o1 == Image_open(fs, baseline_path)
      o2 == Image_open(fs, current_path)
  IN  IF o1.exc # "none" THEN [fs |-> fs, ret |-> Raise(o1.exc)]
      ELSE IF o2.exc # "none" THEN [fs |-> fs, ret |-> Raise(o2.exc)]
      ELSE IF exists(fs, output_path) THEN [fs |-> fs, ret |-> Return(<<None>>)]
      ELSE
        LET baseline == convertRGB(o1.val)
            current == resize(convertRGB(o2.val), baseline.size)
            diff == point10(ImageChops_difference(baseline, current))
        IN  [fs |-> Image_save(fs, Comparison(baseline, current, diff), output_path),
             ret |-> Return(<<None>>)]

create_diff_image(fs, baseline_path, current_path, output_path) ==
  LET o1 == Image_open(fs, baseline_path)
      o2 == Image_open(fs, current_path)
  IN  IF o1.exc # "none" THEN [fs |-> fs, ret |-> Raise(o1.exc)]
      ELSE IF o2.exc # "none" THEN [fs |-> fs, ret |-> Raise(o2.exc)]
      ELSE
        LET baseline == convertRGB(o1.val)
            current == resize(convertRGB(o2.val), baseline.size)
            diff == point10(ImageChops_difference(baseline, current))
            comparison == Comparison(baseline, current, diff)
        IN  [fs |-> Image_save(fs, comparison, output_path), ret |-> Return(<<None>>)]

(***************************************************************************)
(* save_baseline(screenshot_path, name)                                    *)
(***************************************************************************)
\* Variant: the screenshot is converted to RGB before it is stored.
save_baseline_rgb(fs, screenshot_path, name) ==
  LET baseline_path == BaselinePath(name)
      o == Image_open(fs, screenshot_path)
  IN  IF o.exc # "none" THEN [fs |-> fs, ret |-> Raise(o.exc)]
      ELSE [fs |-> Image_save(fs, convertRGB(o.val), baseline_path),
            ret |-> Return(<<baseline_path>>)]

\* Variant: the screenshot is moved into the baseline directory.
save_baseline_move(fs, screenshot_path, name) ==
  LET baseline_path == BaselinePath(name)
      o == Image_open(fs, screenshot_path)
  IN  IF o.exc # "none" THEN [fs |-> fs, ret |-> Raise(o.exc)]
      ELSE [fs |-> [Image_save(fs, o.val, baseline_path) EXCEPT ![screenshot_path] = Absent],
            ret |-> Return(<<baseline_path>>)]

\* Variant: the baseline file is opened for writing before the screenshot is
\* opened, and stays behind, empty, when the screenshot cannot be decoded.
save_baseline_create_first(fs, screenshot_path, name) ==
  LET baseline_path == BaselinePath(name)
      created == [fs EXCEPT ![baseline_path] = Garbage]
      o == Image_open(fs, screenshot_path)
  IN  IF o.exc # "none" THEN [fs |-> created, ret |-> Raise(o.exc)]
      ELSE [fs |-> Image_save(fs, o.val, baseline_path),
            ret |-> Return(<<baseline_path>>)]

\* Variant: the stored baseline is removed before the screenshot is opened.
save_baseline_unlink_first(fs, screenshot_path, name) ==
  LET baseline_path == BaselinePath(name)
      cleared == [fs EXCEPT ![baseline_path] = Absent]
      o == Image_open(cleared, screenshot_path)
  IN  IF o.exc # "none" THEN [fs |-> cleared, ret |-> Raise(o.exc)]
      ELSE [fs |-> Image_save(cleared, o.val, baseline_path),
            ret |-> Return(<<baseline_path>>)]

save_baseline(fs, screenshot_path, name) ==
  LET baseline_path == BaselinePath(name)
      o == Image_open(fs, screenshot_path)
  IN  IF o.exc # "none" THEN [fs |-> fs, ret |-> Raise(o.exc)]
      ELSE [fs |-> Image_save(fs, o.val, baseline_path),
            ret |-> Return(<<baseline_path>>)]

(***************************************************************************)
(* compare_with_baseline(screenshot_path, name, threshold, save_diff)      *)
(***************************************************************************)
\* Variants of compare_with_baseline.  "no_save": the bootstrap branch returns
\* without storing the screenshot.  "path_always": diff_path is set before the
\* test, so it is returned on every comparison.  "diff_always": the diff image
\* is written on every failure, whatever save_diff.  "auto_update": a failing
\* comparison stores the screenshot as the new baseline.
compare_with_baseline_variant(fs, screenshot_path, name, threshold, save_diff, v) ==
  LET baseline_path == BaselinePath(name)
      diff_path == DiffPath(name)
  IN  IF ~exists(fs, baseline_path)
      THEN LET s == IF v = "no_save"
                    THEN [fs |-> fs, ret |-> Image_open(fs, screenshot_path)]
                    ELSE save_baseline(fs, screenshot_path, name)
           IN  IF s.ret.exc # "none" THEN s
               ELSE [fs |-> s.fs, ret |-> Return(<<TRUE, Zero, None>>)]
      ELSE
        LET c == compare_images(fs, baseline_path, screenshot_path, threshold)
        IN  IF c.exc # "none" THEN [fs |-> fs, ret |-> c]
            ELSE
              LET is_similar == c.val[1]
                  difference == c.val[2]
                  write == ~is_similar /\ (save_diff \/ v = "diff_always")
                  d == IF write
                       THEN create_diff_image(fs, baseline_path, screenshot_path, diff_path)
                       ELSE [fs |-> fs, ret |-> Return(<<None>>)]
                  u == IF ~is_similar /\ v = "auto_update"
                       THEN save_baseline(d.fs, screenshot_path, name).fs
                       ELSE d.fs
              IN  [fs |-> u,
                   ret |-> Return(<<is_similar, difference,
                                    IF write \/ v = "path_always"
                                    THEN diff_path ELSE None>>)]

\* Variant: a screenshot of another size than the baseline is resized to the
\* size of the baseline before it is compared.
compare_with_baseline_resized(fs, screenshot_path, name, threshold, save_diff) ==
  LET baseline_path == BaselinePath(name)
      diff_path == DiffPath(name)
      b == Image_open(fs, baseline_path)
      c == Image_open(fs, screenshot_path)
  IN  IF b.exc = "none" /\ c.exc = "none" /\ b.val.size # c.val.size
      THEN LET difference == RatioOf(b.val, resize(convertRGB(c.val), b.val.size))
               is_similar == FloatLE(difference, threshold)
           IN  IF ~is_similar /\ save_diff
               THEN [fs |-> create_diff_image(fs, baseline_path, screenshot_path,
                                              diff_path).fs,
                     ret |-> Return(<<is_similar, difference, diff_path>>)]
               ELSE [fs |-> fs, ret |-> Return(<<is_similar, difference, None>>)]
      ELSE compare_with_baseline_variant(fs, screenshot_path, name, threshold,
                                         save_diff, "")

compare_with_baseline_no_save(fs, screenshot_path, name, threshold, save_diff) ==
  compare_with_baseline_variant(fs, screenshot_path, name, threshold, save_diff, "no_save")

compare_with_baseline_path_always(fs, screenshot_path, name, threshold, save_diff) ==
  compare_with_baseline_variant(fs, screenshot_path, name, threshold, save_diff, "path_always")

compare_with_baseline_diff_always(fs, screenshot_path, name, threshold, save_diff) ==
  compare_with_baseline_variant(fs, screenshot_path, name, threshold, save_diff, "diff_always")

compare_with_baseline_auto_update(fs, screenshot_path, name, threshold, save_diff) ==
  compare_with_baseline_variant(fs, screenshot_path, name, threshold, save_diff, "auto_update")

\* Variant: a passing call removes the diff artifact of its name.
compare_with_baseline_clear_stale(fs, screenshot_path, name, threshold, save_diff) ==
  LET r == compare_with_baseline_variant(fs, screenshot_path, name, threshold, save_diff, "")
  IN  IF r.ret.exc = "none" /\ r.ret.val[1]
      THEN [fs |-> [r.fs EXCEPT ![DiffPath(name)] = Absent], ret |-> r.ret]
      ELSE r

compare_with_baseline(fs, screenshot_path, name, threshold, save_diff) ==
  LET baseline_path == BaselinePath(name)
  IN  IF ~exists(fs, baseline_path)
      THEN LET s == save_baseline(fs, screenshot_path, name)
           IN  IF s.ret.exc # "none" THEN s
               ELSE [fs |-> s.fs, ret |-> Return(<<TRUE, Zero, None>>)]
      ELSE
        LET c == compare_images(fs, baseline_path, screenshot_path, threshold)
        IN  IF c.exc # "none" THEN [fs |-> fs, ret |-> c]
            ELSE
              LET is_similar == c.val[1]
                  difference == c.val[2]
              IN  IF ~is_similar /\ save_diff
                  THEN LET diff_path == DiffPath(name)
                           d == create_diff_image(fs, baseline_path,
                                                  screenshot_path, diff_path)
                       IN  IF d.ret.exc # "none" THEN d
                           ELSE [fs |-> d.fs,
                                 ret |-> Return(<<is_similar, difference, diff_path>>)]
                  ELSE [fs |-> fs, ret |-> Return(<<is_similar, difference, None>>)]

(***************************************************************************)
(* update_baseline(screenshot_path, name)                                  *)
(***************************************************************************)
\* Variant: an existing baseline is kept, the screenshot is stored only when
\* the name has none.
update_baseline_keep_existing(fs, screenshot_path, name) ==
  IF exists(fs, BaselinePath(name)) /\ Image_open(fs, screenshot_path).exc = "none"
  THEN [fs |-> fs, ret |-> Return(<<BaselinePath(name)>>)]
  ELSE save_baseline(fs, screenshot_path, name)

update_baseline(fs, screenshot_path, name) == save_baseline(fs, screenshot_path, name)

(***************************************************************************)
(* compare_regions(image1_path, image2_path, region, threshold)            *)
(***************************************************************************)
\* Variant: the box is taken at the origin, with the width and height asked.
crop_from_origin(img, region) ==
  LET w == region[3] - region[1]
      h == region[4] - region[2]
  IN  Image(img.mode, <<w, h>>,
            [i \in 1..(w * h) |->
               LET x == (i - 1) % w
                   y == (i - 1) \div w
               IN  IF x < img.size[1] /\ y < img.size[2]
                   THEN getpixel(img, x, y)
                   ELSE <<0, 0, 0>>])

\* Image.crop((left, top, right, bottom)) of an RGB image: pixels of the box
\* that lie outside the image are 0.
crop(img, region) ==
  LET left == region[1]
      top == region[2]
      w == region[3] - region[1]
      h == region[4] - region[2]
  IN  Image(img.mode, <<w, h>>,
            [i \in 1..(w * h) |->
               LET x == left + ((i - 1) % w)
                   y == top + ((i - 1) \div w)
               IN  IF x >= 0 /\ x < img.size[1] /\ y >= 0 /\ y < img.size[2]
                   THEN getpixel(img, x, y)
                   ELSE <<0, 0, 0>>])

\* Path.unlink()
unlink(fs, path) == [fs EXCEPT ![path] = Absent]

compare_regions(fs, image1_path, image2_path, region, threshold) ==
  LET o1 == Image_open(fs, image1_path)
      o2 == Image_open(fs, image2_path)
  IN  IF o1.exc # "none" THEN [fs |-> fs, ret |-> Raise(o1.exc)]
      ELSE IF o2.exc # "none" THEN [fs |-> fs, ret |-> Raise(o2.exc)]
      ELSE
        LET region1 == crop(convertRGB(o1.val), region)
            region2 == crop(convertRGB(o2.val), region)
            saved == Image_save(Image_save(fs, region1, temp_path1), region2, temp_path2)
            result == compare_images(saved, temp_path1, temp_path2, threshold)
        IN  IF result.exc # "none" THEN [fs |-> saved, ret |-> result]
            ELSE [fs |-> unlink(unlink(saved, temp_path1), temp_path2), ret |-> result]

(***************************************************************************)
(* The names, thresholds and files the operations are called with.         *)
(***************************************************************************)
\* Baseline names (two of the names of tests/test_visual_regression.py).
Names == {"homepage_desktop", "cart_page"}

\* Thresholds of the calls on stored files: the strictest one, 0.0, and
\* 1 / ThresholdDen.
Thresholds == {Zero, TrueDiv(1, ThresholdDen)}

\* Thresholds of compare_images on generated images: every k / ThresholdDen
\* from below 0.0 to above 1.0.
WideThresholds == {TrueDiv(k, ThresholdDen) : k \in (-1)..(ThresholdDen + 1)}

Solid(mode, size, pixel) == Image(mode, size, [i \in 1..(size[1] * size[2]) |-> pixel])

\* Screenshots written by the capture step, each of one colour: a white RGB
\* pixel, a grey pixel (a JPEG of mode L), a transparent black RGBA image two
\* pixels wide, and a file that is no image.
Shots ==
  [p \in {"visual/temp/white.png", "visual/temp/gray.png",
          "visual/temp/wide.png", "visual/temp/broken.png"} |->
     CASE p = "visual/temp/white.png" ->
            ImageFile("PNG", Solid("RGB", <<1, 1>>, <<255, 255, 255>>))
       [] p = "visual/temp/gray.png" ->
            ImageFile("JPEG", Solid("L", <<1, 1>>, <<128>>))
       [] p = "visual/temp/wide.png" ->
            ImageFile("PNG", Solid("RGBA", <<2, 1>>, <<0, 0, 0, 0>>))
       [] OTHER -> Garbage]

ShotPaths == DOMAIN Shots

\* The two files compare_images is applied to on generated images.
PairPaths == {"visual/temp/image1.png", "visual/temp/image2.png"}

\* A screenshot path at which no file was ever written.
missing_path == "visual/temp/missing.png"

\* An entry of each directory that no operation writes: where it exists it is
\* a subdirectory, which glob("*.png") yields and unlink() cannot remove.
baseline_archive == baseline_dir \o "/" \o "archive.png"
diff_archive == diff_dir \o "/" \o "archive.png"

\* What glob("*.png") can yield in each directory.
BaselineFiles == {BaselinePath(n) : n \in Names} \cup {baseline_archive}
DiffFiles == {DiffPath(n) : n \in Names} \cup {temp_path1, temp_path2, diff_archive}

Paths == ShotPaths \cup PairPaths \cup {missing_path} \cup BaselineFiles \cup DiffFiles

\* Generated images: every size of at most MaxPixels pixels, every pixel
\* drawn from the palette of the mode.
Palette(mode) ==
  CASE mode = "RGB" -> {<<0, 0, 0>>, <<255, 255, 255>>}
    [] mode = "L" -> {<<128>>}
    [] mode = "RGBA" -> {<<255, 255, 255, 0>>}

Sizes == {s \in (1..MaxPixels) \X (1..MaxPixels) : s[1] * s[2] <= MaxPixels}

Images ==
  UNION {{Image(mode, s, d) : d \in [1..(s[1] * s[2]) -> Palette(mode)]} :
           mode \in {"RGB", "L", "RGBA"}, s \in Sizes}

\* Boxes (left, top, right, bottom) compare_regions is called with.
Regions == {<<0, 0, 1, 1>>, <<1, 0, 2, 1>>}

(***************************************************************************)
(* clear_diffs(), clear_baselines(): unlink every *.png of the directory.  *)
(***************************************************************************)
\* The entries of a directory that exist, and those of them unlink() removes.
Globbed(fs, dir_files) == {p \in dir_files : exists(fs, p)}
Removable(fs, dir_files) == {p \in Globbed(fs, dir_files) : fs[p].kind # "directory"}

\* for file in dir.glob("*.png"): file.unlink()
\* glob yields the entries in the order of the directory listing, which is
\* arbitrary: first is the set of entries it yields before the first entry
\* that unlink() cannot remove. The exception of that unlink() ends the loop.
unlink_each(fs, dir_files, first) ==
  IF Removable(fs, dir_files) = Globbed(fs, dir_files)
  THEN [fs |-> [p \in DOMAIN fs |-> IF p \in dir_files THEN Absent ELSE fs[p]],
        ret |-> Return(<<None>>)]
  ELSE [fs |-> [p \in DOMAIN fs |-> IF p \in first THEN Absent ELSE fs[p]],
        ret |-> Raise("IsADirectoryError")]

\* The sets of entries that can come first in the listing.
Firsts(fs, dir_files) ==
  IF Removable(fs, dir_files) = Globbed(fs, dir_files) THEN {Globbed(fs, dir_files)}
  ELSE SUBSET Removable(fs, dir_files)

clear_diffs(fs, first) == unlink_each(fs, DiffFiles, first)

\* Variant: clear_baselines empties the diff directory as well.
clear_baselines_both(fs, first) == unlink_each(fs, BaselineFiles \cup DiffFiles, first)

clear_baselines(fs, first) == unlink_each(fs, BaselineFiles, first)

(***************************************************************************)
(* State: the files on disk, the concurrent calls (further down), and the  *)
(* last call made on its own: its arguments, whether the                   *)
(* baseline of its name existed when it was made, what it returned or      *)
(* raised, and (after) the call it follows immediately when that one was a *)
(* bootstrap or an update_baseline of the same screenshot and name.        *)
(***************************************************************************)
Call(op, args, existed, ret, after) ==
  [op |-> op, args |-> args, existed |-> existed, ret |-> ret, after |-> after]

NoCall == Call("init", <<>>, FALSE, Return(<<>>), "")

\* workers: the calls that run concurrently, each at a position of its
\* method; none where the calls are made one after the other.
NoWorkers == <<>>

\* What a compare_with_baseline(screenshot_path, name, ...) made now follows.
Follows(screenshot_path, name) ==
  IF /\ last.op \in {"compare_with_baseline", "update_baseline"}
     /\ last.ret.exc = "none"
     /\ last.args.screenshot_path = screenshot_path
     /\ last.args.name = name
  THEN IF last.op = "update_baseline" THEN "update_baseline"
       ELSE IF ~last.existed THEN "bootstrap" ELSE ""
  ELSE ""

\* After ScreenshotCompare(): both directories exist and are empty.
Init ==
  /\ files = [p \in Paths |-> IF p \in ShotPaths THEN Shots[p] ELSE Absent]
  /\ last = NoCall
  /\ workers = NoWorkers

CompareWithBaseline(P, N, T) ==
  \E screenshot_path \in P, name \in N, threshold \in T, save_diff \in BOOLEAN :
    LET r == compare_with_baseline(files, screenshot_path, name, threshold, save_diff)
    IN  /\ files' = r.fs
        /\ UNCHANGED workers
        /\ last' = Call("compare_with_baseline",
                        [screenshot_path |-> screenshot_path, name |-> name,
                         threshold |-> threshold, save_diff |-> save_diff],
                        exists(files, BaselinePath(name)), r.ret,
                        Follows(screenshot_path, name))

SaveBaseline(P, N) ==
  \E screenshot_path \in P, name \in N :
    LET r == save_baseline(files, screenshot_path, name)
    IN  /\ files' = r.fs
        /\ UNCHANGED workers
        /\ last' = Call("save_baseline",
                        [screenshot_path |-> screenshot_path, name |-> name],
                        exists(files, BaselinePath(name)), r.ret, "")

UpdateBaseline(P, N) ==
  \E screenshot_path \in P, name \in N :
    LET r == update_baseline(files, screenshot_path, name)
    IN  /\ files' = r.fs
        /\ UNCHANGED workers
        /\ last' = Call("update_baseline",
                        [screenshot_path |-> screenshot_path, name |-> name],
                        exists(files, BaselinePath(name)), r.ret, "")

\* Variant: the first image is converted in place (saved back as RGB).
CompareImages_normalising(P, T) ==
  \E image1_path \in P, image2_path \in P, threshold \in T :
    LET o1 == Image_open(files, image1_path)
    IN  /\ last' = Call("compare_images",
                        [image1_path |-> image1_path, image2_path |-> image2_path,
                         threshold |-> threshold],
                        FALSE, compare_images(files, image1_path, image2_path, threshold), "")
        /\ UNCHANGED workers
        /\ files' = IF o1.exc # "none" THEN files
                    ELSE Image_save(files, convertRGB(o1.val), image1_path)

CompareImages(P, T) ==
  \E image1_path \in P, image2_path \in P, threshold \in T :
    /\ UNCHANGED workers
    /\ last' = Call("compare_images",
                    [image1_path |-> image1_path, image2_path |-> image2_path,
                     threshold |-> threshold],
                    FALSE, compare_images(files, image1_path, image2_path, threshold), "")
    /\ UNCHANGED files

CreateDiffImage(P, O) ==
  \E baseline_path \in P, current_path \in P, output_path \in O :
    /\ LET r == create_diff_image(files, baseline_path, current_path, output_path)
       IN  /\ files' = r.fs
           /\ UNCHANGED workers
           /\ last' = Call("create_diff_image",
                           [baseline_path |-> baseline_path,
                            current_path |-> current_path,
                            output_path |-> output_path],
                           FALSE, r.ret, "")

CompareRegions(P, R, T) ==
  \E image1_path \in P, image2_path \in P, region \in R, threshold \in T :
    LET r == compare_regions(files, image1_path, image2_path, region, threshold)
    IN  /\ files' = r.fs
        /\ UNCHANGED workers
        /\ last' = Call("compare_regions",
                        [image1_path |-> image1_path, image2_path |-> image2_path,
                         region |-> region, threshold |-> threshold],
                        FALSE, r.ret, "")

ClearDiffs ==
  \E first \in Firsts(files, DiffFiles) :
    LET r == clear_diffs(files, first)
    IN  /\ files' = r.fs
        /\ UNCHANGED workers
        /\ last' = Call("clear_diffs", <<>>, FALSE, r.ret, "")

ClearBaselines ==
  \E first \in Firsts(files, BaselineFiles) :
    LET r == clear_baselines(files, first)
    IN  /\ files' = r.fs
        /\ UNCHANGED workers
        /\ last' = Call("clear_baselines", <<>>, FALSE, r.ret, "")

(***************************************************************************)
(* Concurrent calls.  A worker is one call in progress: its method and     *)
(* arguments, its position (pc), what it has read so far (existed, img,    *)
(* val), its result once it is done, stamp: the rank of its write of the   *)
(* baseline among the writes of all workers (0 before it), overlapped:     *)
(* whether another call was in progress at some time of this one, and      *)
(* linked: whether the file it has open for writing is still the one its   *)
(* path names.  The steps of one call are its accesses to the file system, *)
(* one access per step, in program order; the steps of different workers   *)
(* interleave freely, as the class holds no lock.                          *)
(***************************************************************************)
Worker(op, args, pc) ==
  [op |-> op, args |-> args, pc |-> pc, existed |-> FALSE, img |-> NoImage,
   val |-> <<>>, ret |-> Return(<<>>), stamp |-> 0, overlapped |-> FALSE,
   linked |-> FALSE]

Done(w, ret) == [w EXCEPT !.pc = "done", !.ret = ret]

\* The rank of the next write of a baseline.
NextStamp == 1 + Cardinality({i \in DOMAIN workers : workers[i].stamp > 0})

\* The file system as a call sees it that read the image img at the path
\* earlier and reads every other path now.
Snapshot(fs, path, img) == [fs EXCEPT ![path] = ImageFile("PNG", img)]

\* compare_with_baseline, line 144: if not baseline_path.exists()
CwbExists(i) ==
  /\ workers[i].op = "compare_with_baseline" /\ workers[i].pc = "exists"
  /\ LET e == exists(files, BaselinePath(workers[i].args.name))
     IN  workers' = [workers EXCEPT ![i].existed = e,
                                    ![i].pc = IF e THEN "compare_images" ELSE "save_baseline"]
  /\ UNCHANGED <<files, last>>

\* save_baseline, line 120: Image.open(screenshot_path), the read of the
\* screenshot.
CwbOpen(i) ==
  /\ workers[i].op = "compare_with_baseline" /\ workers[i].pc = "save_baseline"
  /\ LET o == Image_open(files, workers[i].args.screenshot_path)
     IN  workers' =
           [workers EXCEPT
              ![i] = IF o.exc # "none" THEN Done(@, Raise(o.exc))
                     ELSE [@ EXCEPT !.img = o.val, !.pc = "save"]]
  /\ UNCHANGED <<files, last>>

\* Variant: the baseline file is created exclusively (open mode "x").
CwbSave_exclusive(i) ==
  /\ workers[i].op = "compare_with_baseline" /\ workers[i].pc = "save"
  /\ LET baseline_path == BaselinePath(workers[i].args.name)
     IN  IF exists(files, baseline_path)
         THEN /\ workers' = [workers EXCEPT ![i] = Done(@, Raise("FileExistsError"))]
              /\ UNCHANGED files
         ELSE /\ workers' = [workers EXCEPT ![i].pc = "write"]
              /\ files' = [files EXCEPT ![baseline_path] = Garbage]
  /\ UNCHANGED last

\* save_baseline, line 121: img.save opens the baseline file for writing,
\* which empties it.
CwbSave(i) ==
  /\ workers[i].op = "compare_with_baseline" /\ workers[i].pc = "save"
  /\ files' = [files EXCEPT ![BaselinePath(workers[i].args.name)] = Garbage]
  /\ workers' = [workers EXCEPT ![i].pc = "write"]
  /\ UNCHANGED last

\* save_baseline, line 121: img.save writes the encoded image; then line 147:
\* return True, 0.0, None
CwbWrite(i) ==
  /\ workers[i].op = "compare_with_baseline" /\ workers[i].pc = "write"
  /\ files' = Image_save(files, workers[i].img, BaselinePath(workers[i].args.name))
  /\ workers' = [workers EXCEPT
                   ![i] = [Done(@, Return(<<TRUE, Zero, None>>)) EXCEPT !.stamp = NextStamp]]
  /\ UNCHANGED last

\* compare_images, line 48: Image.open(image1_path), the read of the
\* baseline.
CwbCompareBaseline(i) ==
  /\ workers[i].op = "compare_with_baseline" /\ workers[i].pc = "compare_images"
  /\ LET o == Image_open(files, BaselinePath(workers[i].args.name))
     IN  workers' =
           [workers EXCEPT
              ![i] = IF o.exc # "none" THEN Done(@, Raise(o.exc))
                     ELSE [@ EXCEPT !.img = o.val, !.pc = "compare_images2"]]
  /\ UNCHANGED <<files, last>>

\* compare_images, line 49: the read of the screenshot, and lines 52-65 on
\* the two images read; lines 155-164 when no diff image is written.
CwbCompare(i) ==
  /\ workers[i].op = "compare_with_baseline" /\ workers[i].pc = "compare_images2"
  /\ LET baseline_path == BaselinePath(workers[i].args.name)
         c == compare_images(Snapshot(files, baseline_path, workers[i].img), baseline_path,
                             workers[i].args.screenshot_path, workers[i].args.threshold)
     IN  workers' =
           [workers EXCEPT
              ![i] = IF c.exc # "none" THEN Done(@, c)
                     ELSE IF ~c.val[1] /\ workers[i].args.save_diff
                     THEN [@ EXCEPT !.val = c.val, !.pc = "create_diff_image"]
                     ELSE Done(@, Return(<<c.val[1], c.val[2], None>>))]
  /\ UNCHANGED <<files, last>>

\* create_diff_image, line 80: Image.open(baseline_path), the read of the
\* baseline.
CwbDiffBaseline(i) ==
  /\ workers[i].op = "compare_with_baseline" /\ workers[i].pc = "create_diff_image"
  /\ LET o == Image_open(files, BaselinePath(workers[i].args.name))
     IN  workers' =
           [workers EXCEPT
              ![i] = IF o.exc # "none" THEN Done(@, Raise(o.exc))
                     ELSE [@ EXCEPT !.img = o.val, !.pc = "create_diff_image2"]]
  /\ UNCHANGED <<files, last>>

\* create_diff_image, line 81: the read of the screenshot, and lines 83-101:
\* the comparison image of the two images read.
CwbDiff(i) ==
  /\ workers[i].op = "compare_with_baseline" /\ workers[i].pc = "create_diff_image2"
  /\ LET baseline_path == BaselinePath(workers[i].args.name)
         diff_path == DiffPath(workers[i].args.name)
         d == create_diff_image(Snapshot(files, baseline_path, workers[i].img),
                                baseline_path, workers[i].args.screenshot_path, diff_path)
     IN  workers' =
           [workers EXCEPT
              ![i] = IF d.ret.exc # "none" THEN Done(@, d.ret)
                     ELSE [@ EXCEPT !.img = d.fs[diff_path].img, !.pc = "save_diff"]]
  /\ UNCHANGED <<files, last>>

\* create_diff_image, line 107: comparison.save opens the diff file for
\* writing, which empties it.
CwbDiffSave(i) ==
  /\ workers[i].op = "compare_with_baseline" /\ workers[i].pc = "save_diff"
  /\ files' = [files EXCEPT ![DiffPath(workers[i].args.name)] = Garbage]
  /\ workers' = [workers EXCEPT ![i].pc = "write_diff"]
  /\ UNCHANGED last

\* create_diff_image, line 107: comparison.save writes the encoded image;
\* then line 164: return is_similar, difference, diff_path
CwbDiffWrite(i) ==
  /\ workers[i].op = "compare_with_baseline" /\ workers[i].pc = "write_diff"
  /\ LET diff_path == DiffPath(workers[i].args.name)
     IN  /\ files' = Image_save(files, workers[i].img, diff_path)
         /\ workers' =
              [workers EXCEPT
                 ![i] = Done(@, Return(<<workers[i].val[1], workers[i].val[2], diff_path>>))]
  /\ UNCHANGED last

\* One step of one concurrent compare_with_baseline.
CwbStep ==
  \/ \E i \in DOMAIN workers : CwbExists(i)
  \/ \E i \in DOMAIN workers : CwbOpen(i)
  \/ \E i \in DOMAIN workers : CwbSave(i)
  \/ \E i \in DOMAIN workers : CwbWrite(i)
  \/ \E i \in DOMAIN workers : CwbCompareBaseline(i)
  \/ \E i \in DOMAIN workers : CwbCompare(i)
  \/ \E i \in DOMAIN workers : CwbDiffBaseline(i)
  \/ \E i \in DOMAIN workers : CwbDiff(i)
  \/ \E i \in DOMAIN workers : CwbDiffSave(i)
  \/ \E i \in DOMAIN workers : CwbDiffWrite(i)

\* The calls that have started and not ended.
InProgress == {j \in DOMAIN workers : workers[j].pc \notin {"open", "done"}}

\* compare_regions, line 196: Image.open(image1_path), the read of the first
\* image.  The call starts here: it overlaps the calls in progress.
RegOpen(i) ==
  /\ workers[i].op = "compare_regions" /\ workers[i].pc = "open"
  /\ LET o1 == Image_open(files, workers[i].args.image1_path)
         started == [j \in DOMAIN workers |->
                       IF j \in InProgress \/ (j = i /\ InProgress # {})
                       THEN [workers[j] EXCEPT !.overlapped = TRUE]
                       ELSE workers[j]]
     IN  workers' =
           [started EXCEPT
              ![i] = IF o1.exc # "none" THEN Done(@, Raise(o1.exc))
                     ELSE [@ EXCEPT !.img = o1.val, !.pc = "open2"]]
  /\ UNCHANGED <<files, last>>

\* Line 197: Image.open(image2_path), the read of the second image; lines
\* 200-201: both images are cropped.
RegCrop(i) ==
  /\ workers[i].op = "compare_regions" /\ workers[i].pc = "open2"
  /\ LET o2 == Image_open(files, workers[i].args.image2_path)
     IN  workers' =
           [workers EXCEPT
              ![i] = IF o2.exc # "none" THEN Done(@, Raise(o2.exc))
                     ELSE [@ EXCEPT !.val = <<crop(convertRGB(workers[i].img),
                                                   workers[i].args.region),
                                             crop(convertRGB(o2.val), workers[i].args.region)>>,
                                    !.pc = "save1"]]
  /\ UNCHANGED <<files, last>>

\* The workers after path.unlink() by worker i: a file another worker has
\* open for writing at the pc is no longer the one the path names.
Unlinked(i, pc) ==
  [j \in DOMAIN workers |->
     IF j # i /\ workers[j].op = "compare_regions" /\ workers[j].pc = pc
     THEN [workers[j] EXCEPT !.linked = FALSE]
     ELSE workers[j]]

\* Line 207, region1.save(temp_path1): the file is opened for writing, which
\* creates it or empties it.
RegSave1(i) ==
  /\ workers[i].op = "compare_regions" /\ workers[i].pc = "save1"
  /\ files' = [files EXCEPT ![temp_path1] = Garbage]
  /\ workers' = [workers EXCEPT ![i].pc = "write1", ![i].linked = TRUE]
  /\ UNCHANGED last

\* Line 207: the encoded crop is written to the open file, which the path
\* names unless it was unlinked since.
RegWrite1(i) ==
  /\ workers[i].op = "compare_regions" /\ workers[i].pc = "write1"
  /\ files' = IF workers[i].linked THEN Image_save(files, workers[i].val[1], temp_path1)
              ELSE files
  /\ workers' = [workers EXCEPT ![i].pc = "save2"]
  /\ UNCHANGED last

\* Line 208, region2.save(temp_path2): the file is opened for writing.
RegSave2(i) ==
  /\ workers[i].op = "compare_regions" /\ workers[i].pc = "save2"
  /\ files' = [files EXCEPT ![temp_path2] = Garbage]
  /\ workers' = [workers EXCEPT ![i].pc = "write2", ![i].linked = TRUE]
  /\ UNCHANGED last

\* Variant: the second crop is written to temp_region1.png as well.
RegWrite2_same_file(i) ==
  /\ workers[i].op = "compare_regions" /\ workers[i].pc = "write2"
  /\ files' = IF workers[i].linked THEN Image_save(files, workers[i].val[2], temp_path1)
              ELSE files
  /\ workers' = [workers EXCEPT ![i].pc = "compare_images"]
  /\ UNCHANGED last

\* Line 208: the encoded crop is written to the open file.
RegWrite2(i) ==
  /\ workers[i].op = "compare_regions" /\ workers[i].pc = "write2"
  /\ files' = IF workers[i].linked THEN Image_save(files, workers[i].val[2], temp_path2)
              ELSE files
  /\ workers' = [workers EXCEPT ![i].pc = "compare_images"]
  /\ UNCHANGED last

\* compare_images, line 48: Image.open(image1_path), the read of
\* temp_region1.png as it is now.
RegCompareFirst(i) ==
  /\ workers[i].op = "compare_regions" /\ workers[i].pc = "compare_images"
  /\ LET o == Image_open(files, temp_path1)
     IN  workers' =
           [workers EXCEPT
              ![i] = IF o.exc # "none" THEN Done(@, Raise(o.exc))
                     ELSE [@ EXCEPT !.img = o.val, !.pc = "compare_images2"]]
  /\ UNCHANGED <<files, last>>

\* compare_images, line 49: the read of temp_region2.png as it is now, and
\* lines 52-65 on the two images read.
RegCompare(i) ==
  /\ workers[i].op = "compare_regions" /\ workers[i].pc = "compare_images2"
  /\ LET result == compare_images(Snapshot(files, temp_path1, workers[i].img),
                                  temp_path1, temp_path2, workers[i].args.threshold)
     IN  workers' =
           [workers EXCEPT
              ![i] = IF result.exc # "none" THEN Done(@, result)
                     ELSE [@ EXCEPT !.val = result.val, !.pc = "unlink1"]]
  /\ UNCHANGED <<files, last>>

\* Line 218: temp_path1.unlink(), FileNotFoundError when the file is gone.
RegUnlink1(i) ==
  /\ workers[i].op = "compare_regions" /\ workers[i].pc = "unlink1"
  /\ IF exists(files, temp_path1)
     THEN /\ files' = unlink(files, temp_path1)
          /\ workers' = [Unlinked(i, "write1") EXCEPT ![i].pc = "unlink2"]
     ELSE /\ workers' = [workers EXCEPT ![i] = Done(@, Raise("FileNotFoundError"))]
          /\ UNCHANGED files
  /\ UNCHANGED last

\* Lines 219-221: temp_path2.unlink() and return result.
RegUnlink2(i) ==
  /\ workers[i].op = "compare_regions" /\ workers[i].pc = "unlink2"
  /\ IF exists(files, temp_path2)
     THEN /\ files' = unlink(files, temp_path2)
          /\ workers' = [Unlinked(i, "write2") EXCEPT
                           ![i] = Done(@, Return(workers[i].val))]
     ELSE /\ workers' = [workers EXCEPT ![i] = Done(@, Raise("FileNotFoundError"))]
          /\ UNCHANGED files
  /\ UNCHANGED last

\* One step of one concurrent compare_regions.
RegStep ==
  \/ \E i \in DOMAIN workers : RegOpen(i)
  \/ \E i \in DOMAIN workers : RegCrop(i)
  \/ \E i \in DOMAIN workers : RegSave1(i)
  \/ \E i \in DOMAIN workers : RegWrite1(i)
  \/ \E i \in DOMAIN workers : RegSave2(i)
  \/ \E i \in DOMAIN workers : RegWrite2(i)
  \/ \E i \in DOMAIN workers : RegCompareFirst(i)
  \/ \E i \in DOMAIN workers : RegCompare(i)
  \/ \E i \in DOMAIN workers : RegUnlink1(i)
  \/ \E i \in DOMAIN workers : RegUnlink2(i)

(***************************************************************************)
(* Spec: the baseline lifecycle, driven by compare_with_baseline,          *)
(* save_baseline, update_baseline and the two clear operations.            *)
(***************************************************************************)
Next ==
  \/ CompareWithBaseline(ShotPaths, Names, Thresholds)
  \/ SaveBaseline(ShotPaths, Names)
  \/ UpdateBaseline(ShotPaths, Names)
  \/ ClearDiffs
  \/ ClearBaselines

Spec == Init /\ [][Next]_vars

(***************************************************************************)
(* SpecCompare: compare_images on every pair of generated images.          *)
(***************************************************************************)
InitCompare ==
  /\ \E img1 \in Images, img2 \in Images :
       files = [p \in Paths |->
                  CASE p = "visual/temp/image1.png" -> ImageFile("PNG", img1)
                    [] p = "visual/temp/image2.png" -> ImageFile("PNG", img2)
                    [] OTHER -> Absent]
  /\ last = NoCall
  /\ workers = NoWorkers

NextCompare == CompareImages(PairPaths, WideThresholds)

SpecCompare == InitCompare /\ [][NextCompare]_vars

(***************************************************************************)
(* SpecCalls: every operation, called on the screenshots with one baseline *)
(* name; create_diff_image with any output path of the two directories;    *)
(* compare_images also on the stored baseline.                             *)
(***************************************************************************)
CallPaths == {"visual/temp/white.png", "visual/temp/gray.png", "visual/temp/broken.png",
              missing_path}
CallNames == {"homepage_desktop"}
CallOutputs == {BaselinePath(n) : n \in CallNames} \cup {DiffPath(n) : n \in CallNames}

NextCalls ==
  \/ CompareWithBaseline(CallPaths, CallNames, Thresholds)
  \/ SaveBaseline(CallPaths, CallNames)
  \/ UpdateBaseline(CallPaths, CallNames)
  \/ CompareImages(CallPaths \cup {BaselinePath(n) : n \in CallNames}, Thresholds)
  \/ CreateDiffImage(CallPaths, CallOutputs)
  \/ CompareRegions(CallPaths, Regions, Thresholds)
  \/ ClearDiffs
  \/ ClearBaselines

SpecCalls == Init /\ [][NextCalls]_vars

(***************************************************************************)
(* SpecRegions: compare_regions on the screenshots, its threshold a number *)
(* or not, and clear_diffs.                                                *)
(***************************************************************************)
RegionThresholds == Thresholds \cup {NotANumber}

NextRegions ==
  \/ CompareRegions(ShotPaths, Regions, RegionThresholds)
  \/ ClearDiffs

SpecRegions == Init /\ [][NextRegions]_vars

(***************************************************************************)
(* SpecClear: the two clear operations on directories that may hold a      *)
(* subdirectory named *.png, filled by compare_with_baseline.              *)
(***************************************************************************)
InitClear ==
  /\ \E dirs \in SUBSET {baseline_archive, diff_archive} :
       files = [p \in Paths |->
                  IF p \in dirs THEN Directory
                  ELSE IF p \in ShotPaths THEN Shots[p] ELSE Absent]
  /\ last = NoCall
  /\ workers = NoWorkers

ClearPaths == {"visual/temp/white.png", "visual/temp/gray.png"}

NextClear ==
  \/ CompareWithBaseline(ClearPaths, Names, {Zero})
  \/ ClearDiffs
  \/ ClearBaselines

SpecClear == InitClear /\ [][NextClear]_vars

(***************************************************************************)
(* SpecCandidate: every operation that is passed a screenshot, called on   *)
(* two screenshots with one baseline name; create_diff_image writes to the *)
(* diff artifact of the name or, once, over one of the screenshots (each   *)
(* composite is three times as wide as its baseline panel).                *)
(***************************************************************************)
CandidatePaths == {"visual/temp/white.png", "visual/temp/gray.png"}

NextCandidate ==
  \/ CompareWithBaseline(CandidatePaths, CallNames, {Zero})
  \/ SaveBaseline(CandidatePaths, CallNames)
  \/ UpdateBaseline(CandidatePaths, CallNames)
  \/ CompareImages(CandidatePaths, {Zero})
  \/ CreateDiffImage(CandidatePaths, {DiffPath(n) : n \in CallNames})
  \/ /\ files["visual/temp/gray.png"] = Shots["visual/temp/gray.png"]
     /\ CreateDiffImage(CandidatePaths, {"visual/temp/gray.png"})
  \/ CompareRegions(CandidatePaths, {<<0, 0, 1, 1>>}, {Zero})

SpecCandidate == Init /\ [][NextCandidate]_vars

(***************************************************************************)
(* SpecDiff: create_diff_image on every pair of generated images.          *)
(***************************************************************************)
NextDiff == CreateDiffImage(PairPaths, {DiffPath(n) : n \in CallNames})

SpecDiff == InitCompare /\ [][NextDiff]_vars

(***************************************************************************)
(* SpecRegionPairs: compare_regions on every pair of generated images.     *)
(***************************************************************************)
PairRegions == Regions \cup {<<0, 1, 1, 2>>}

NextRegionPairs == CompareRegions(PairPaths, PairRegions, Thresholds)

SpecRegionPairs == InitCompare /\ [][NextRegionPairs]_vars

(***************************************************************************)
(* SpecRace: two callers run compare_with_baseline concurrently for one    *)
(* name, on an empty baseline store.                                       *)
(***************************************************************************)
RacePaths == {"visual/temp/white.png", "visual/temp/gray.png", "visual/temp/broken.png"}

InitRace ==
  /\ files = [p \in Paths |-> IF p \in ShotPaths THEN Shots[p] ELSE Absent]
  /\ last = NoCall
  /\ \E path1 \in RacePaths, path2 \in RacePaths, t \in Thresholds, d \in BOOLEAN :
       workers =
         [i \in 1..2 |->
            Worker("compare_with_baseline",
                   [screenshot_path |-> IF i = 1 THEN path1 ELSE path2,
                    name |-> "homepage_desktop", threshold |-> t, save_diff |-> d],
                   "exists")]

SpecRace == InitRace /\ [][CwbStep]_vars

(***************************************************************************)
(* SpecRegionRace: two callers run compare_regions concurrently on one     *)
(* diff directory.                                                         *)
(***************************************************************************)
InitRegionRace ==
  /\ files = [p \in Paths |-> IF p \in ShotPaths THEN Shots[p] ELSE Absent]
  /\ last = NoCall
  /\ \E paths \in [1..2 -> RacePaths \X RacePaths], t \in Thresholds :
       workers =
         [i \in 1..2 |->
            Worker("compare_regions",
                   [image1_path |-> paths[i][1], image2_path |-> paths[i][2],
                    region |-> <<0, 0, 1, 1>>, threshold |-> t],
                   "open")]

SpecRegionRace == InitRegionRace /\ [][RegStep]_vars

(***************************************************************************)
(* Properties of compare_images (SpecCompare).                             *)
(***************************************************************************)
Decoded(path) == files[path].img

\* C3: compare_images on two images whose pixel dimensions differ returns
\* (False, 1.0), whatever the contents and whatever the threshold (1.0 and
\* above included).
C3_DimensionMismatch ==
  (/\ last.op = "compare_images"
   /\ Decoded(last.args.image1_path).size # Decoded(last.args.image2_path).size)
  => last.ret = Return(<<FALSE, One>>)

C3_Witness ==
  /\ last.op = "compare_images"
  /\ Decoded(last.args.image1_path).size # Decoded(last.args.image2_path).size
  /\ last.args.threshold = One
  /\ last.ret = Return(<<FALSE, One>>)

\* C4 as stated: for every pair of images, of equal dimensions or not, with
\* reported ratio r, is_similar is True for every threshold >= r and False
\* for every threshold < r.
C4_MonotoneEveryPair ==
  (last.op = "compare_images" /\ last.ret.exc = "none")
  => \A t \in WideThresholds :
       compare_images(files, last.args.image1_path, last.args.image2_path, t).val[1]
         = FloatLE(last.ret.val[2], t)

\* C4 amended: for images of equal dimensions with reported ratio r,
\* is_similar is True exactly for the thresholds >= r; for images of
\* different dimensions is_similar is False for every threshold, also for
\* those >= the reported ratio 1.0.
C4_MonotoneEqualSize ==
  (last.op = "compare_images" /\ last.ret.exc = "none")
  => LET same == Decoded(last.args.image1_path).size
                   = Decoded(last.args.image2_path).size
     IN  \A t \in WideThresholds :
           compare_images(files, last.args.image1_path, last.args.image2_path, t).val[1]
             = (same /\ FloatLE(last.ret.val[2], t))

C4_Witness ==
  /\ last.op = "compare_images"
  /\ Decoded(last.args.image1_path).size = Decoded(last.args.image2_path).size
  /\ last.ret.exc = "none"
  /\ last.ret.val[2] = <<1, 2>>
  /\ \E t1 \in WideThresholds, t2 \in WideThresholds :
       /\ ~compare_images(files, last.args.image1_path, last.args.image2_path, t1).val[1]
       /\ compare_images(files, last.args.image1_path, last.args.image2_path, t2).val[1]

\* C5: comparing an image with itself (the same file, or two files of the
\* same content) under a threshold >= 0 returns (True, 0.0).
C5_Identity ==
  (/\ last.op = "compare_images"
   /\ files[last.args.image1_path] = files[last.args.image2_path]
   /\ FloatLE(Zero, last.args.threshold))
  => last.ret = Return(<<TRUE, Zero>>)

C5_Witness ==
  /\ last.op = "compare_images"
  /\ last.args.image1_path # last.args.image2_path
  /\ files[last.args.image1_path] = files[last.args.image2_path]
  /\ last.args.threshold = Zero
  /\ last.ret = Return(<<TRUE, Zero>>)

(***************************************************************************)
(* Properties of the baseline lifecycle (Spec).                            *)
(***************************************************************************)
IsCompareWithBaseline(c) == c.op = "compare_with_baseline"

\* The paths of section 6 of the specification, written out.
BaselineOf(name) == "visual/baselines/" \o name \o ".png"
DiffOf(name) == "visual/diffs/" \o name \o "_diff.png"

Passed == Return(<<TRUE, Zero, None>>)

\* C1: compare_with_baseline on a name without baseline, given a decodable
\* screenshot, returns (True, 0.0, None) for every threshold and save_diff,
\* and afterwards the baseline of the name exists with the screenshot's pixels.
C1_Bootstrap ==
  (/\ IsCompareWithBaseline(last)
   /\ ~last.existed
   /\ files[last.args.screenshot_path].kind = "image")
  => /\ last.ret = Passed
     /\ files[BaselineOf(last.args.name)].kind = "image"
     /\ files[BaselineOf(last.args.name)].img = files[last.args.screenshot_path].img

C1_Witness ==
  /\ IsCompareWithBaseline(last)
  /\ ~last.existed
  /\ last.args.threshold = Zero
  /\ last.args.save_diff
  /\ last.ret = Passed
  /\ files[last.args.screenshot_path].format = "JPEG"
  /\ files[BaselineOf(last.args.name)].format = "PNG"
  /\ files[BaselineOf(last.args.name)].img = files[last.args.screenshot_path].img

\* C6: a bootstrap call followed by a call with the same screenshot and name
\* (any threshold of [0,1]): both return (True, 0.0, None), the second one is
\* a comparison against the baseline now stored, and it changes no file (the
\* baseline stays, no diff artifact is written).
C6_BootstrapIdempotent ==
  [][(/\ IsCompareWithBaseline(last) /\ ~last.existed /\ last.ret.exc = "none"
      /\ IsCompareWithBaseline(last')
      /\ last'.args.screenshot_path = last.args.screenshot_path
      /\ last'.args.name = last.args.name)
     => /\ last.ret = Passed
        /\ last'.existed
        /\ last'.ret = Passed
        /\ files' = files]_vars

C6_Witness ==
  /\ IsCompareWithBaseline(last)
  /\ last.after = "bootstrap"
  /\ last.existed
  /\ last.args.threshold = Zero
  /\ last.ret = Passed

\* C7: update_baseline(new_image, name), with or without a prior baseline,
\* followed at once by compare_with_baseline(new_image, name, threshold=0)
\* makes the latter return (True, 0.0, None).
C7_UpdateThenCompare ==
  [][(/\ last.op = "update_baseline" /\ last.ret.exc = "none"
      /\ IsCompareWithBaseline(last')
      /\ last'.args.screenshot_path = last.args.screenshot_path
      /\ last'.args.name = last.args.name
      /\ last'.args.threshold = Zero)
     => last'.ret = Passed]_vars

C7_Witness ==
  /\ IsCompareWithBaseline(last)
  /\ last.after = "update_baseline"
  /\ last.existed
  /\ last.args.threshold = Zero
  /\ last.args.save_diff
  /\ last.ret = Passed
  /\ \E n \in Names : n # last.args.name /\ exists(files, BaselineOf(n))
                      /\ files[BaselineOf(n)].img # files[BaselineOf(last.args.name)].img

\* C8: save_baseline(image, name) stores image as the baseline of name
\* whether or not one existed, changes no other file, and returns
\* <baseline_dir>/<name>.png; update_baseline has the same effect and result
\* from every state and for every argument.
C8_SaveOverwrites ==
  [][(last'.op \in {"save_baseline", "update_baseline"})
     => /\ files[last'.args.screenshot_path].kind = "image"
           => /\ last'.ret = Return(<<BaselineOf(last'.args.name)>>)
              /\ files'[BaselineOf(last'.args.name)]
                   = ImageFile("PNG", files[last'.args.screenshot_path].img)
              /\ \A p \in Paths \ {BaselineOf(last'.args.name)} : files'[p] = files[p]
        /\ update_baseline(files, last'.args.screenshot_path, last'.args.name)
             = save_baseline(files, last'.args.screenshot_path, last'.args.name)
        /\ files' = save_baseline(files, last'.args.screenshot_path, last'.args.name).fs
        /\ last'.ret = save_baseline(files, last'.args.screenshot_path, last'.args.name).ret]_vars

C8_Witness ==
  /\ last.op = "update_baseline"
  /\ last.existed
  /\ last.ret = Return(<<BaselineOf(last.args.name)>>)
  /\ files[BaselineOf(last.args.name)].img = files[last.args.screenshot_path].img
  /\ \E n \in Names : n # last.args.name /\ exists(files, BaselineOf(n))

\* C9: with a baseline stored, compare_with_baseline returns the
\* (is_similar, ratio) of compare_images(baseline, screenshot, threshold), and
\* its third component is <diff_dir>/<name>_diff.png exactly when is_similar
\* is False and save_diff is True, None otherwise.
C9_ResultWithBaseline ==
  [][(IsCompareWithBaseline(last') /\ exists(files, BaselineOf(last'.args.name)))
     => LET a == last'.args
            c == compare_images(files, BaselineOf(a.name), a.screenshot_path, a.threshold)
        IN  IF c.exc # "none" THEN last'.ret = c
            ELSE last'.ret =
                   Return(<<c.val[1], c.val[2],
                            IF ~c.val[1] /\ a.save_diff THEN DiffOf(a.name) ELSE None>>)]_vars

C9_Witness ==
  /\ IsCompareWithBaseline(last)
  /\ last.existed
  /\ last.args.save_diff
  /\ last.ret = Return(<<FALSE, <<127, 255>>, DiffOf(last.args.name)>>)

\* C10: compare_with_baseline changes a file of the diff directory only when
\* the comparison fails and save_diff is True (a bootstrap call, a passing call
\* and a failing call with save_diff False leave the directory as it was), and
\* it creates a baseline file only in the bootstrap case, for its own name.
C10_WritesOnlyOnFailure ==
  [][IsCompareWithBaseline(last')
     => /\ (\E p \in DiffFiles : files'[p] # files[p])
             => /\ last'.existed
                /\ last'.ret.exc = "none"
                /\ ~last'.ret.val[1]
                /\ last'.args.save_diff
        /\ \A n \in Names :
             (~exists(files, BaselineOf(n)) /\ exists(files', BaselineOf(n)))
               => n = last'.args.name]_vars

C10_Witness ==
  /\ IsCompareWithBaseline(last)
  /\ last.existed
  /\ last.ret.exc = "none"
  /\ ~last.ret.val[1]
  /\ ~last.args.save_diff
  /\ ~exists(files, DiffOf(last.args.name))

(***************************************************************************)
(* Properties of all the operations together (SpecCalls).                  *)
(***************************************************************************)
Comparisons ==
  {"compare_with_baseline", "compare_images", "compare_regions", "create_diff_image"}

\* C2 as stated: no compare_with_baseline, compare_images, compare_regions or
\* create_diff_image call changes the content of a baseline that exists, and
\* the content of an existing baseline is replaced by save_baseline and
\* update_baseline only.
C2_BaselineImmutable ==
  [][\A n \in Names :
       exists(files, BaselineOf(n))
       => /\ (last'.op \in Comparisons)
               => files'[BaselineOf(n)] = files[BaselineOf(n)]
          /\ (exists(files', BaselineOf(n))
                /\ files'[BaselineOf(n)] # files[BaselineOf(n)])
               => last'.op \in {"save_baseline", "update_baseline"}]_vars

\* The call just made is create_diff_image with path as its output_path.
DiffImageInto(c, path) == c.op = "create_diff_image" /\ c.args.output_path = path

\* C2 amended: no compare_with_baseline, compare_images or compare_regions
\* call, and no create_diff_image call whose output_path is not the baseline
\* file itself, changes the content of a baseline that exists; the content of
\* an existing baseline is replaced only by save_baseline, by update_baseline
\* and by create_diff_image called with the baseline file as output_path.
C2_BaselineImmutableButOutputPath ==
  [][\A n \in Names :
       exists(files, BaselineOf(n))
       => /\ (last'.op \in Comparisons /\ ~DiffImageInto(last', BaselineOf(n)))
               => files'[BaselineOf(n)] = files[BaselineOf(n)]
          /\ (exists(files', BaselineOf(n))
                /\ files'[BaselineOf(n)] # files[BaselineOf(n)])
               => \/ last'.op \in {"save_baseline", "update_baseline"}
                  \/ DiffImageInto(last', BaselineOf(n))]_vars

C2_Witness ==
  /\ IsCompareWithBaseline(last)
  /\ last.existed
  /\ last.ret.exc = "none"
  /\ ~last.ret.val[1]
  /\ last.args.save_diff
  /\ exists(files, DiffOf(last.args.name))
  /\ files[BaselineOf(last.args.name)].img # files[last.args.screenshot_path].img
  /\ files[BaselineOf(last.args.name)].img.size = <<1, 1>>

\* C11: compare_images has no side effect: whatever its two paths and its
\* threshold, and whether it returns a result or raises, every file (the
\* baselines, the diff directory, both inputs) is after the call what it was
\* before it.
C11_CompareImagesPure ==
  [][last'.op = "compare_images" => files' = files]_vars

\* A compare_images call that raised on an input that is no image, made while
\* a baseline and a diff artifact are stored.
C11_Witness ==
  /\ last.op = "compare_images"
  /\ last.ret.exc = "UnidentifiedImageError"
  /\ \E n \in Names : exists(files, BaselineOf(n)) /\ exists(files, DiffOf(n))

(***************************************************************************)
(* The difference ratio (SpecCompare).                                     *)
(***************************************************************************)
\* Channel c (1..3, red green blue) of pixel i of an image, in RGB.
RGBChannel(img, i, c) == PixelToRGB(img.mode, img.data[i])[c]

\* |a - b| on channel c of pixel i.
ChannelDelta(a, b, i, c) ==
  IF RGBChannel(a, i, c) >= RGBChannel(b, i, c)
  THEN RGBChannel(a, i, c) - RGBChannel(b, i, c)
  ELSE RGBChannel(b, i, c) - RGBChannel(a, i, c)

\* The sum of ChannelDelta over the first k of the 3 * w * h channel values.
RECURSIVE DeltaSum(_, _, _)
DeltaSum(a, b, k) ==
  IF k = 0 THEN 0
  ELSE ChannelDelta(a, b, ((k - 1) \div 3) + 1, ((k - 1) % 3) + 1) + DeltaSum(a, b, k - 1)

PixelCount(img) == img.size[1] * img.size[2]

\* C12: for two images of equal dimensions w x h, the ratio compare_images
\* returns is (the sum over all pixels and the 3 RGB channels of the absolute
\* channel difference) / (w * h * 3 * 255); it lies in [0, 1], is 0 exactly
\* when the two images have the same RGB pixels, is 1.0 exactly when every
\* channel of every pixel differs by 255, and a ratio of 1.0 is reported not
\* similar for every threshold below 1.0.
C12_DifferenceRatio ==
  (/\ last.op = "compare_images"
   /\ last.ret.exc = "none"
   /\ Decoded(last.args.image1_path).size = Decoded(last.args.image2_path).size)
  => LET a == Decoded(last.args.image1_path)
         b == Decoded(last.args.image2_path)
         n == PixelCount(a)
         ratio == last.ret.val[2]
         channels == (1..n) \X (1..3)
     IN  /\ ratio[2] > 0
         /\ ratio[1] * (n * 3 * 255) = ratio[2] * DeltaSum(a, b, 3 * n)
         /\ 0 <= ratio[1] /\ ratio[1] <= ratio[2]
         /\ (ratio[1] = 0) <=> (\A ch \in channels : ChannelDelta(a, b, ch[1], ch[2]) = 0)
         /\ (ratio[1] = ratio[2])
              <=> (\A ch \in channels : ChannelDelta(a, b, ch[1], ch[2]) = 255)
         /\ (ratio[1] = ratio[2]
               /\ last.args.threshold[1] < last.args.threshold[2])
              => ~last.ret.val[1]

\* Two pixels of solid white against two of solid black, at threshold 0.0:
\* ratio 1.0, not similar.
C12_Witness ==
  /\ last.op = "compare_images"
  /\ last.ret = Return(<<FALSE, One>>)
  /\ last.args.threshold = Zero
  /\ Decoded(last.args.image1_path) = Solid("RGB", <<2, 1>>, <<255, 255, 255>>)
  /\ Decoded(last.args.image2_path) = Solid("RGB", <<2, 1>>, <<0, 0, 0>>)

(***************************************************************************)
(* Determinism of compare_images (SpecCalls).                              *)
(***************************************************************************)
\* What compare_images yields as a function of the contents of its two files
\* and of the threshold alone: the error of the first file that is no image,
\* (False, 1.0) for two sizes, and else the ratio of the RGB values and its
\* comparison with the threshold.
Verdict(file1, file2, threshold) ==
  CASE file1.kind = "absent" -> Raise("FileNotFoundError")
    [] file1.kind = "garbage" -> Raise("UnidentifiedImageError")
    [] file1.kind = "image" /\ file2.kind = "absent" -> Raise("FileNotFoundError")
    [] file1.kind = "image" /\ file2.kind = "garbage" -> Raise("UnidentifiedImageError")
    [] file1.kind = "image" /\ file2.kind = "image" ->
         IF file1.img.size # file2.img.size THEN Return(<<FALSE, One>>)
         ELSE LET sum == DeltaSum(file1.img, file2.img, 3 * PixelCount(file1.img))
                  max == PixelCount(file1.img) * 3 * 255
              IN  Return(<<sum * threshold[2] <= threshold[1] * max,
                           TrueDiv(sum, max)>>)

\* C13: the result of compare_images is a function of the contents of its
\* two files and of the threshold: after whatever history of comparisons,
\* baseline saves and updates, clears and diff generation, a call on the
\* same pair of images with the same threshold returns the same
\* (is_similar, ratio), or raises the same error.
C13_Deterministic ==
  last.op = "compare_images"
  => last.ret = Verdict(files[last.args.image1_path], files[last.args.image2_path],
                        last.args.threshold)

\* A comparison of the stored baseline with a screenshot, made after a
\* history that also left a diff artifact.
C13_Witness ==
  /\ last.op = "compare_images"
  /\ last.args.image1_path = BaselineOf("homepage_desktop")
  /\ last.args.image2_path = "visual/temp/gray.png"
  /\ last.ret.exc = "none"
  /\ exists(files, DiffOf("homepage_desktop"))

(***************************************************************************)
(* Temporary files of compare_regions (SpecRegions).                       *)
(***************************************************************************)
\* C14: compare_regions leaves no temporary region file behind on any exit
\* path: after every call, whether it returns a result or the inner
\* comparison raises, neither <diff_dir>/temp_region1.png nor
\* <diff_dir>/temp_region2.png exists.
C14_NoTempFileLeft ==
  last.op = "compare_regions"
  => /\ ~exists(files, "visual/diffs/temp_region1.png")
     /\ ~exists(files, "visual/diffs/temp_region2.png")

\* The inner comparison raised after both region files were written.
C14_Witness ==
  /\ last.op = "compare_regions"
  /\ last.ret.exc = "TypeError"
  /\ exists(files, "visual/diffs/temp_region1.png")
  /\ exists(files, "visual/diffs/temp_region2.png")

(***************************************************************************)
(* clear_diffs and clear_baselines (SpecClear).                            *)
(***************************************************************************)
\* What each directory can hold, written out.
InBaselineDir == {BaselineOf(n) : n \in Names} \cup {"visual/baselines/archive.png"}
InDiffDir ==
  {DiffOf(n) : n \in Names}
    \cup {"visual/diffs/temp_region1.png", "visual/diffs/temp_region2.png",
          "visual/diffs/archive.png"}

\* An entry that unlink() can remove: a file, not a directory.
IsFile(p) == files[p].kind \in {"image", "garbage"}

\* C15: clear_diffs and clear_baselines are best-effort: when deleting one
\* entry fails, every remaining entry is still attempted, so after the call
\* every file of the directory whose deletion can succeed is gone.
C15_BestEffort ==
  [][/\ (last'.op = "clear_diffs")
          => \A p \in InDiffDir : IsFile(p) => ~exists(files', p)
     /\ (last'.op = "clear_baselines")
          => \A p \in InBaselineDir : IsFile(p) => ~exists(files', p)]_vars

\* clear_diffs raised on the subdirectory and left a diff artifact in place.
C15_Witness ==
  /\ last.op = "clear_diffs"
  /\ last.ret.exc # "none"
  /\ \E n \in Names : exists(files, DiffOf(n))

\* C16: after clear_baselines returns normally no name has a baseline, the
\* diff directory is as it was, and the next compare_with_baseline of any
\* name takes the bootstrap branch; after clear_diffs returns normally no
\* name has a diff artifact and every baseline is as it was.
C16_ClearSeparately ==
  [][/\ (last'.op = "clear_baselines" /\ last'.ret.exc = "none")
          => /\ \A n \in Names : ~exists(files', BaselineOf(n))
             /\ \A p \in InDiffDir : files'[p] = files[p]
     /\ (last'.op = "clear_diffs" /\ last'.ret.exc = "none")
          => /\ \A n \in Names : ~exists(files', DiffOf(n))
             /\ \A p \in InBaselineDir : files'[p] = files[p]
     /\ (last.op = "clear_baselines" /\ last.ret.exc = "none"
           /\ IsCompareWithBaseline(last'))
          => /\ ~last'.existed
             /\ last'.ret = Passed
             /\ files'[BaselineOf(last'.args.name)].img
                  = Decoded(last'.args.screenshot_path)]_vars

\* clear_baselines returned normally, no baseline is left, and the diff
\* artifact of an earlier failing comparison is still there.
C16_Witness ==
  /\ last.op = "clear_baselines"
  /\ last.ret.exc = "none"
  /\ \A n \in Names : ~exists(files, BaselineOf(n))
  /\ \E n \in Names : exists(files, DiffOf(n))

(***************************************************************************)
(* Errors of the inputs (SpecCalls).                                       *)
(***************************************************************************)
\* The error of opening the file at a path: none when it decodes.
OpenError(path) ==
  CASE files[path].kind = "absent" -> "FileNotFoundError"
    [] files[path].kind = "garbage" -> "UnidentifiedImageError"
    [] OTHER -> "none"

\* The error of opening two paths one after the other.
FirstError(path1, path2) ==
  IF OpenError(path1) # "none" THEN OpenError(path1) ELSE OpenError(path2)

\* C17: when an input path of compare_images is missing or not decodable the
\* call raises the error of the open and returns no (is_similar, ratio);
\* compare_regions and create_diff_image do likewise for their two inputs,
\* and compare_with_baseline for its screenshot, with or without baseline.
C17_ErrorsPropagate ==
  /\ (last.op \in {"compare_images", "compare_regions"}
        /\ FirstError(last.args.image1_path, last.args.image2_path) # "none")
       => last.ret = Raise(FirstError(last.args.image1_path, last.args.image2_path))
  /\ (last.op = "create_diff_image"
        /\ FirstError(last.args.baseline_path, last.args.current_path) # "none")
       => last.ret = Raise(FirstError(last.args.baseline_path, last.args.current_path))
  /\ (IsCompareWithBaseline(last) /\ OpenError(last.args.screenshot_path) # "none")
       => last.ret = Raise(OpenError(last.args.screenshot_path))

\* compare_with_baseline of a missing screenshot against a stored baseline
\* raised FileNotFoundError.
C17_Witness ==
  /\ IsCompareWithBaseline(last)
  /\ last.existed
  /\ files[last.args.screenshot_path].kind = "absent"
  /\ last.ret = Raise("FileNotFoundError")

(***************************************************************************)
(* The candidate screenshot (SpecCandidate).                               *)
(***************************************************************************)
\* The paths a call reads its images from.
InputPaths(c) ==
  CASE c.op \in {"compare_with_baseline", "save_baseline", "update_baseline"}
         -> {c.args.screenshot_path}
    [] c.op \in {"compare_images", "compare_regions"}
         -> {c.args.image1_path, c.args.image2_path}
    [] c.op = "create_diff_image" -> {c.args.baseline_path, c.args.current_path}
    [] OTHER -> {}

\* C18 as stated: no operation (compare_images, compare_with_baseline in any
\* branch, create_diff_image, save_baseline, update_baseline,
\* compare_regions) deletes or modifies a screenshot passed to it, provided
\* its path lies neither in the baseline directory nor in the diff directory.
C18_CandidateReadOnly ==
  [][\A p \in InputPaths(last') :
       (p \notin InBaselineDir /\ p \notin InDiffDir) => files'[p] = files[p]]_vars

\* C18 amended: no operation deletes or modifies a screenshot passed to it,
\* provided its path lies neither in the baseline directory nor in the diff
\* directory and is not the output_path of the create_diff_image call it is
\* passed to.
C18_CandidateReadOnlyButOutputPath ==
  [][\A p \in InputPaths(last') :
       (p \notin InBaselineDir /\ p \notin InDiffDir /\ ~DiffImageInto(last', p))
         => files'[p] = files[p]]_vars

\* A screenshot that replaced a stored baseline through update_baseline is
\* still the JPEG it was.
C18_Witness ==
  /\ last.op = "update_baseline"
  /\ last.existed
  /\ last.ret.exc = "none"
  /\ files[last.args.screenshot_path] = ImageFile("JPEG", Solid("L", <<1, 1>>, <<128>>))
  /\ files[BaselineOf(last.args.name)].format = "PNG"

(***************************************************************************)
(* Screenshots of another size than the baseline (Spec).                   *)
(***************************************************************************)
\* The colour, in RGB, of a screenshot of one colour.
ColourOf(img) == PixelToRGB(img.mode, img.data[1])

\* C19: when compare_with_baseline runs against a baseline whose dimensions
\* differ from those of the screenshot, it returns (False, 1.0, path-or-None)
\* for every threshold: the path of the diff artifact with save_diff, None
\* without.  The artifact written in that call is laid out on the baseline's
\* dimensions, its middle panel being the screenshot stretched to them, and
\* the screenshot file and the baseline keep their own dimensions.
C19_ResizeNotCompared ==
  [][(/\ IsCompareWithBaseline(last')
      /\ last'.existed
      /\ files[last'.args.screenshot_path].kind = "image"
      /\ files[BaselineOf(last'.args.name)].img.size
           # files[last'.args.screenshot_path].img.size)
     => LET baseline == files[BaselineOf(last'.args.name)].img
            candidate == files[last'.args.screenshot_path].img
            artifact == files'[DiffOf(last'.args.name)]
        IN  /\ last'.ret = Return(<<FALSE, One,
                                    IF last'.args.save_diff
                                    THEN DiffOf(last'.args.name) ELSE None>>)
            /\ files'[last'.args.screenshot_path] = files[last'.args.screenshot_path]
            /\ files'[BaselineOf(last'.args.name)] = files[BaselineOf(last'.args.name)]
            /\ last'.args.save_diff
                 => /\ artifact.kind = "image"
                    /\ artifact.img.size = <<3 * baseline.size[1], baseline.size[2]>>
                    /\ \A x \in 0..(baseline.size[1] - 1), y \in 0..(baseline.size[2] - 1) :
                         artifact.img.data[y * 3 * baseline.size[1] + baseline.size[1] + x + 1]
                           = ColourOf(candidate)]_vars

\* A screenshot two pixels wide was compared at threshold 1.0 with a baseline
\* one pixel wide: not similar, ratio 1.0, and an artifact three pixels wide.
C19_Witness ==
  /\ IsCompareWithBaseline(last)
  /\ last.existed
  /\ last.args.threshold = One
  /\ Decoded(last.args.screenshot_path).size = <<2, 1>>
  /\ Decoded(BaselineOf(last.args.name)).size = <<1, 1>>
  /\ last.ret = Return(<<FALSE, One, DiffOf(last.args.name)>>)
  /\ Decoded(DiffOf(last.args.name)).size = <<3, 1>>

(***************************************************************************)
(* The diff artifact (SpecDiff).                                           *)
(***************************************************************************)
\* C20: the image create_diff_image writes is exactly 3 times as wide as the
\* baseline and as high as the baseline, for every baseline and every
\* candidate, candidates of other dimensions than the baseline included.
C20_ArtifactSize ==
  last.op = "create_diff_image"
  => /\ last.ret.exc = "none"
     /\ files[last.args.output_path].kind = "image"
     /\ Decoded(last.args.output_path).size[1] = 3 * Decoded(last.args.baseline_path).size[1]
     /\ Decoded(last.args.output_path).size[2] = Decoded(last.args.baseline_path).size[2]

\* A baseline one pixel wide and two high with a candidate two wide and one
\* high: the artifact is three wide and two high.
C20_Witness ==
  /\ last.op = "create_diff_image"
  /\ Decoded(last.args.baseline_path).size = <<1, 2>>
  /\ Decoded(last.args.current_path).size = <<2, 1>>
  /\ Decoded(last.args.output_path).size = <<3, 2>>

(***************************************************************************)
(* compare_regions against compare_images (SpecRegionPairs).               *)
(***************************************************************************)
\* The box (left, top, right, bottom) lies within the image.
Within(region, img) ==
  /\ 0 <= region[1] /\ region[1] < region[3] /\ region[3] <= img.size[1]
  /\ 0 <= region[2] /\ region[2] < region[4] /\ region[4] <= img.size[2]

\* Channel c of the pixel at (x, y) of an image, in RGB.
ChannelAt(img, x, y, c) == RGBChannel(img, y * img.size[1] + x + 1, c)

\* The sum of |a - b| over the channels of the pixels of the box.
RECURSIVE SumOver(_, _, _)
SumOver(a, b, cells) ==
  IF cells = {} THEN 0
  ELSE LET cell == CHOOSE cell \in cells : TRUE
           va == ChannelAt(a, cell[1], cell[2], cell[3])
           vb == ChannelAt(b, cell[1], cell[2], cell[3])
       IN  (IF va >= vb THEN va - vb ELSE vb - va) + SumOver(a, b, cells \ {cell})

RegionSum(a, b, region) ==
  SumOver(a, b, (region[1]..(region[3] - 1)) \X (region[2]..(region[4] - 1)) \X (1..3))

RegionMax(region) == (region[3] - region[1]) * (region[4] - region[2]) * 3 * 255

\* The part of an image inside the box, as an RGB image of its own.
RegionOf(img, region) ==
  Image("RGB", <<region[3] - region[1], region[4] - region[2]>>,
        [i \in 1..((region[3] - region[1]) * (region[4] - region[2])) |->
           [c \in 1..3 |->
              ChannelAt(img, region[1] + ((i - 1) % (region[3] - region[1])),
                        region[2] + ((i - 1) \div (region[3] - region[1])), c)]])

\* C21: for two images and a region lying within both, compare_regions
\* returns the (is_similar, ratio) compare_images returns for the two crops:
\* ratio = sum of the absolute channel differences inside the region /
\* ((right - left) * (bottom - top) * 3 * 255), is_similar = ratio <=
\* threshold; no pixel outside the region enters the result.
C21_RegionsAsCrops ==
  (/\ last.op = "compare_regions"
   /\ Within(last.args.region, Decoded(last.args.image1_path))
   /\ Within(last.args.region, Decoded(last.args.image2_path)))
  => LET a == Decoded(last.args.image1_path)
         b == Decoded(last.args.image2_path)
         region == last.args.region
         threshold == last.args.threshold
         sum == RegionSum(a, b, region)
     IN  /\ last.ret = Return(<<sum * threshold[2] <= threshold[1] * RegionMax(region),
                                TrueDiv(sum, RegionMax(region))>>)
         /\ last.ret = Verdict(ImageFile("PNG", RegionOf(a, region)),
                               ImageFile("PNG", RegionOf(b, region)), threshold)

\* Two images two pixels wide that agree on the right pixel and differ on
\* the left one, compared on the right pixel at threshold 0.0: similar.
C21_Witness ==
  /\ last.op = "compare_regions"
  /\ last.args.region = <<1, 0, 2, 1>>
  /\ last.args.threshold = Zero
  /\ Decoded(last.args.image1_path).size = <<2, 1>>
  /\ Decoded(last.args.image2_path).size = <<2, 1>>
  /\ ChannelAt(Decoded(last.args.image1_path), 0, 0, 1)
       # ChannelAt(Decoded(last.args.image2_path), 0, 0, 1)
  /\ last.ret = Return(<<TRUE, Zero>>)

(***************************************************************************)
(* The diff artifact of a name (Spec).                                     *)
(***************************************************************************)
\* A failing compare_with_baseline that was asked for a diff image.
FailedWithDiff(c) ==
  /\ IsCompareWithBaseline(c)
  /\ c.existed
  /\ c.ret.exc = "none"
  /\ ~c.ret.val[1]
  /\ c.args.save_diff

\* The artifact of a baseline and a candidate of one colour: on the
\* baseline's dimensions, the baseline, the candidate's colour, and ten times
\* their difference, cut off at 255.
ArtifactOf(baseline, candidate) ==
  LET w == baseline.size[1]
      h == baseline.size[2]
  IN  Image("RGB", <<3 * w, h>>,
            [i \in 1..(3 * w * h) |->
               LET x == (i - 1) % (3 * w)
                   y == (i - 1) \div (3 * w)
               IN  [c \in 1..3 |->
                      IF x < w THEN ChannelAt(baseline, x, y, c)
                      ELSE IF x < 2 * w THEN ColourOf(candidate)[c]
                      ELSE LET d == ChannelAt(baseline, x - 2 * w, y, c)
                                      - ColourOf(candidate)[c]
                               tenfold == 10 * (IF d >= 0 THEN d ELSE 0 - d)
                           IN  IF tenfold > 255 THEN 255 ELSE tenfold]])

\* C22: a failing compare_with_baseline with save_diff overwrites the diff
\* artifact of its name: after it, <diff_dir>/<name>_diff.png is the
\* composite of the baseline and of the candidate of that call, whatever was
\* there before, and no other entry of the diff directory is created or
\* changed, so the name has exactly one artifact, that of its most recent
\* failing candidate.
C22_DiffOverwritten ==
  [][FailedWithDiff(last')
     => /\ files'[DiffOf(last'.args.name)]
             = ImageFile("PNG", ArtifactOf(files[BaselineOf(last'.args.name)].img,
                                           files[last'.args.screenshot_path].img))
        /\ last'.ret.val[3] = DiffOf(last'.args.name)
        /\ \A p \in InDiffDir \ {DiffOf(last'.args.name)} : files'[p] = files[p]]_vars

\* The artifact of a name shows the grey candidate of the failing call just
\* made against a white baseline.
C22_Witness ==
  /\ FailedWithDiff(last)
  /\ files[last.args.screenshot_path].img = Solid("L", <<1, 1>>, <<128>>)
  /\ files[BaselineOf(last.args.name)].img = Solid("RGB", <<1, 1>>, <<255, 255, 255>>)
  /\ files[DiffOf(last.args.name)].img.data
       = <<<<255, 255, 255>>, <<128, 128, 128>>, <<255, 255, 255>>>>

(***************************************************************************)
(* The bootstrap race (SpecRace).                                          *)
(***************************************************************************)
\* Worker i is done and found no baseline at its existence check.
Bootstrapped(i) == workers[i].pc = "done" /\ ~workers[i].existed

\* C23: two concurrent compare_with_baseline calls for one name without
\* baseline can both pass the existence check before either writes; each
\* caller that did so with a decodable candidate returns (True, 0.0, None),
\* and once both are done the stored baseline is the candidate of the caller
\* that wrote last.
C23_LastWriterWins ==
  \A i \in DOMAIN workers, j \in DOMAIN workers :
    (/\ i # j
     /\ Bootstrapped(i) /\ Bootstrapped(j)
     /\ files[workers[i].args.screenshot_path].kind = "image"
     /\ files[workers[j].args.screenshot_path].kind = "image")
    => /\ workers[i].ret = Return(<<TRUE, Zero, None>>)
       /\ workers[j].ret = Return(<<TRUE, Zero, None>>)
       /\ workers[i].stamp > workers[j].stamp
            => files[BaselineOf(workers[i].args.name)]
                 = ImageFile("PNG", Decoded(workers[i].args.screenshot_path))

\* Both callers passed the existence check, both returned (True, 0.0, None),
\* their candidates differ, and the baseline is that of caller 1, which
\* wrote second.
C23_Witness ==
  /\ DOMAIN workers = 1..2
  /\ Bootstrapped(1) /\ Bootstrapped(2)
  /\ workers[1].ret = Return(<<TRUE, Zero, None>>)
  /\ workers[2].ret = Return(<<TRUE, Zero, None>>)
  /\ workers[1].stamp = 2 /\ workers[2].stamp = 1
  /\ Decoded(workers[1].args.screenshot_path) # Decoded(workers[2].args.screenshot_path)
  /\ Decoded(BaselineOf("homepage_desktop")) = Decoded(workers[1].args.screenshot_path)

(***************************************************************************)
(* Concurrent compare_regions (SpecRegionRace).                            *)
(***************************************************************************)
\* What compare_regions of the arguments of a call yields on its own crops.
OwnResult(w) ==
  IF FirstError(w.args.image1_path, w.args.image2_path) # "none"
  THEN Raise(FirstError(w.args.image1_path, w.args.image2_path))
  ELSE Verdict(ImageFile("PNG", RegionOf(Decoded(w.args.image1_path), w.args.region)),
               ImageFile("PNG", RegionOf(Decoded(w.args.image2_path), w.args.region)),
               w.args.threshold)

\* C24: concurrent compare_regions calls on one diff directory can collide
\* on temp_region1.png and temp_region2.png; calls that are serialized never
\* collide: a call during which no other call was in progress ends with the
\* result of its own two crops.
C24_SerializedNeverCollide ==
  \A i \in DOMAIN workers :
    (workers[i].op = "compare_regions" /\ workers[i].pc = "done"
       /\ ~workers[i].overlapped)
    => workers[i].ret = OwnResult(workers[i])

\* The collision: caller 1 returned a result that is not that of its own two
\* crops, having compared a crop written by caller 2, and caller 2 failed on
\* a temporary file caller 1 had already deleted.
C24_Witness ==
  /\ DOMAIN workers = 1..2
  /\ workers[1].op = "compare_regions" /\ workers[1].pc = "done"
  /\ workers[2].op = "compare_regions" /\ workers[2].pc = "done"
  /\ workers[1].ret.exc = "none"
  /\ workers[1].ret # OwnResult(workers[1])
  /\ workers[2].ret = Raise("FileNotFoundError")
  /\ OwnResult(workers[2]).exc = "none"

(***************************************************************************)
(* api_tests/clients/base_client.py: BaseAPIClient and APIResponse.        *)
(* A call is modelled by its method, the retry count of the client and the *)
(* status codes the server answers the successive attempts with.           *)
(***************************************************************************)
\* Status codes the server answers with.
Statuses == {200, 304, 404, 429, 500}

\* _create_session: Retry(status_forcelist = ..., allowed_methods = ...)
status_forcelist == {429, 500, 502, 503, 504}
allowed_methods == {"HEAD", "GET", "OPTIONS", "POST", "PUT", "DELETE"}

\* urllib3 Retry.is_retry without a Retry-After header.
is_retry(method, status_code) ==
  method \in allowed_methods /\ status_code \in status_forcelist

\* session.request through the HTTPAdapter mounted by _create_session: a
\* status of the forcelist is retried while the count lasts; when it is used
\* up urllib3 raises MaxRetryError, which requests turns into RetryError.
\* Any other status is handed back as the response.
RECURSIVE session_request(_, _, _)
session_request(method, answers, total) ==
  IF is_retry(method, Head(answers))
  THEN IF total - 1 < 0 THEN Raise("RetryError")
       ELSE session_request(method, Tail(answers), total - 1)
  ELSE Return(Head(answers))

\* APIResponse(response)
APIResponse(status_code) == [status_code |-> status_code]

is_success(response) == 200 <= response.status_code /\ response.status_code < 300
is_client_error(response) == 400 <= response.status_code /\ response.status_code < 500
is_server_error(response) == 500 <= response.status_code /\ response.status_code < 600

\* Variant: the response is wrapped and returned whatever its status.
handle_response_no_raise(status_code) == Return(APIResponse(status_code))

\* _handle_response: response.raise_for_status() raises HTTPError for a
\* status from 400 to 599.
handle_response(status_code) ==
  IF 400 <= status_code /\ status_code < 600 THEN Raise("HTTPError")
  ELSE Return(APIResponse(status_code))

\* get, post, put, delete, patch: session.<method>(...), then _handle_response.
request(method, answers, retry_count) ==
  LET response == session_request(method, answers, retry_count)
  IN  IF response.exc # "none" THEN response ELSE handle_response(response.val)

\* The answers of the server to up to MaxRetries + 1 attempts.
Answers == [1..(MaxRetries + 1) -> Statuses]

\* One call of a method on the client and server drawn by InitAPI.
HTTPCall(name, method) ==
  /\ last.op = "init"
  /\ last' = Call(name, [method |-> method, answers |-> last.args.answers,
                         retry_count |-> last.args.retry_count],
                  FALSE,
                  request(method, last.args.answers, last.args.retry_count), "")
  /\ UNCHANGED <<files, workers>>

Get == HTTPCall("get", "GET")
Post == HTTPCall("post", "POST")
Put == HTTPCall("put", "PUT")
Delete == HTTPCall("delete", "DELETE")
Patch == HTTPCall("patch", "PATCH")

\* A client with its retry count and a server with its answers; no file of
\* the comparator is involved.
InitAPI ==
  /\ files = [p \in Paths |-> Absent]
  /\ \E answers \in Answers, retry_count \in 0..MaxRetries :
       last = Call("init", [answers |-> answers, retry_count |-> retry_count],
                   FALSE, Return(<<>>), "")
  /\ workers = NoWorkers

NextAPI == Get \/ Post \/ Put \/ Delete \/ Patch

SpecAPI == InitAPI /\ [][NextAPI]_vars

\* The status of the last answer the client received in a call: that of the
\* first attempt that is not retried, or of the attempt that used up the
\* retry count.
RECURSIVE FinalStatus(_, _)
FinalStatus(c, k) ==
  IF k > c.args.retry_count
     \/ c.args.method = "PATCH"
     \/ c.args.answers[k] \notin {429, 500, 502, 503, 504}
  THEN c.args.answers[k]
  ELSE FinalStatus(c, k + 1)

IsHTTPCall(c) == c.op \in {"get", "post", "put", "delete", "patch"}

\* C25 as stated: every HTTP method returns an APIResponse or raises;
\* whenever the final response has a 4xx or 5xx status the call raises
\* HTTPError, and every returned response has a status below 400, with
\* is_client_error() and is_server_error() False.
C25_ErrorStatusRaisesHTTPError ==
  IsHTTPCall(last)
  => /\ (FinalStatus(last, 1) >= 400) => last.ret = Raise("HTTPError")
     /\ (last.ret.exc = "none")
          => /\ last.ret.val.status_code < 400
             /\ ~is_client_error(last.ret.val) /\ ~is_server_error(last.ret.val)

\* C25 amended: whenever the final response has a 4xx or 5xx status the call
\* raises: RetryError when the status is 429, 500, 502, 503 or 504 and the
\* method is not PATCH (the retries of the session are used up), HTTPError
\* otherwise; every returned response has a status below 400, with
\* is_client_error() and is_server_error() False.
C25_ErrorStatusRaises ==
  IsHTTPCall(last)
  => /\ (FinalStatus(last, 1) >= 400)
          => last.ret = IF FinalStatus(last, 1) \in {429, 500, 502, 503, 504}
                           /\ last.args.method # "PATCH"
                        THEN Raise("RetryError") ELSE Raise("HTTPError")
     /\ (FinalStatus(last, 1) < 400)
          => last.ret = Return([status_code |-> FinalStatus(last, 1)])
     /\ (last.ret.exc = "none")
          => /\ last.ret.val.status_code < 400
             /\ ~is_client_error(last.ret.val) /\ ~is_server_error(last.ret.val)

\* A GET answered 500 on every attempt ended in RetryError.
C25_Witness ==
  /\ last.op = "get"
  /\ last.args.retry_count = 1
  /\ last.args.answers[1] = 500 /\ last.args.answers[2] = 500
  /\ last.ret = Raise("RetryError")

(***************************************************************************)
(* ui_tests/pages/home_page.py: HomePage.click_product_by_index.           *)
(* The page is modelled by the number of product links it shows; the       *)
(* result of a call is the 0-based position of the link that was clicked,  *)
(* or the error raised, in which case nothing was clicked.                 *)
(***************************************************************************)
\* products[index] on a Python list of the given length: the position taken,
\* counted from the end for a negative index, or IndexError.
list_getitem(length, index) ==
  IF 0 <= index /\ index < length THEN Return(<<index>>)
  ELSE IF index < 0 /\ 0 - length <= index THEN Return(<<length + index>>)
  ELSE Raise("IndexError")

click_product_by_index(products, index) ==
  IF index < products THEN list_getitem(products, index)
  ELSE Raise("IndexError")

\* The indices of the calls: around every list length, and the 999 of
\* test_click_product_with_invalid_index.
Indices == ((0 - MaxProducts - 2)..(MaxProducts + 2)) \cup {999}

\* A home page showing up to MaxProducts product links.
InitHome ==
  /\ files = [p \in Paths |-> Absent]
  /\ \E products \in 0..MaxProducts :
       last = Call("init", [products |-> products], FALSE, Return(<<>>), "")
  /\ workers = NoWorkers

ClickProductByIndex ==
  /\ last.op = "init"
  /\ \E index \in Indices :
       last' = Call("click_product_by_index",
                    [products |-> last.args.products, index |-> index],
                    FALSE, click_product_by_index(last.args.products, index), "")
  /\ UNCHANGED <<files, workers>>

SpecHome == InitHome /\ [][ClickProductByIndex]_vars

\* C26: click_product_by_index(index) raises IndexError and clicks nothing
\* for every index that is no valid 0-based position in the product list
\* (index >= number of products, and every negative index); it clicks
\* product number index when 0 <= index < number of products.
C26_InvalidIndexRaises ==
  last.op = "click_product_by_index"
  => IF 0 <= last.args.index /\ last.args.index < last.args.products
     THEN last.ret = Return(<<last.args.index>>)
     ELSE last.ret = Raise("IndexError")

\* Index -1 on a page of three products clicked the last of them.
C26_Witness ==
  /\ last.op = "click_product_by_index"
  /\ last.args.products = 3
  /\ last.args.index = 0 - 1
  /\ last.ret = Return(<<2>>)

\* C27: a baseline that exists keeps existing through every operation but
\* clear_baselines; a compare_with_baseline that passes through the bootstrap
\* branch starts without the baseline and leaves it stored, so the branch is
\* taken at most once per name between two clear_baselines; and every
\* compare_with_baseline made while the baseline exists is a comparison of
\* the stored baseline with the screenshot.
C27_BaselinePersists ==
  [][\A n \in Names :
       /\ (exists(files, BaselineOf(n)) /\ last'.op # "clear_baselines")
          => exists(files', BaselineOf(n))
       /\ (IsCompareWithBaseline(last') /\ last'.args.name = n /\ ~last'.existed
           /\ last'.ret.exc = "none")
          => (~exists(files, BaselineOf(n)) /\ exists(files', BaselineOf(n))
              /\ last'.ret = Passed)
       /\ (IsCompareWithBaseline(last') /\ last'.args.name = n
           /\ exists(files, BaselineOf(n)))
          => LET v == Verdict(files[BaselineOf(n)], files[last'.args.screenshot_path],
                              last'.args.threshold)
             IN  /\ last'.existed
                 /\ IF v.exc # "none" THEN last'.ret = v
                    ELSE /\ last'.ret.exc = "none"
                         /\ last'.ret.val[1] = v.val[1]
                         /\ last'.ret.val[2] = v.val[2]]_vars

\* A failing comparison against the baseline a bootstrap stored: the same
\* name is compared a second time, with another screenshot.
C27_Witness ==
  /\ IsCompareWithBaseline(last)
  /\ last.existed
  /\ last.ret.exc = "none"
  /\ ~last.ret.val[1]
  /\ last.args.screenshot_path = "visual/temp/gray.png"
  /\ Decoded(BaselineOf(last.args.name)) = Decoded("visual/temp/white.png")

\* C28: a compare_with_baseline for a name without baseline whose screenshot
\* is missing or cannot be decoded raises, and changes no file of the
\* baseline directory: no baseline is created; a compare_with_baseline for
\* the same name that follows it with a decodable screenshot takes the
\* bootstrap branch: it returns (True, 0.0, None) and stores the screenshot.
C28_FailedBootstrapStoresNothing ==
  [][/\ (/\ IsCompareWithBaseline(last')
         /\ ~exists(files, BaselineOf(last'.args.name))
         /\ files[last'.args.screenshot_path].kind # "image")
        => /\ last'.ret.exc \in {"FileNotFoundError", "UnidentifiedImageError"}
           /\ ~last'.existed
           /\ \A b \in BaselineFiles : files'[b] = files[b]
           /\ ~exists(files', BaselineOf(last'.args.name))
     /\ (/\ IsCompareWithBaseline(last) /\ ~last.existed /\ last.ret.exc # "none"
         /\ IsCompareWithBaseline(last')
         /\ last'.args.name = last.args.name
         /\ files[last'.args.screenshot_path].kind = "image")
        => /\ ~last'.existed
           /\ last'.ret = Passed
           /\ files'[BaselineOf(last'.args.name)].kind = "image"
           /\ files'[BaselineOf(last'.args.name)].img
              = files'[last'.args.screenshot_path].img]_vars

\* A bootstrap call on the undecodable screenshot has raised, and the name
\* has no baseline.
C28_Witness ==
  /\ IsCompareWithBaseline(last)
  /\ ~last.existed
  /\ last.args.screenshot_path = "visual/temp/broken.png"
  /\ last.ret = Raise("UnidentifiedImageError")
  /\ ~exists(files, BaselineOf(last.args.name))

\* C29: the diff artifact of a name, once written, is left as it is by every
\* compare_with_baseline of the name that passes and by every
\* update_baseline of the name, and no operation but clear_diffs removes it;
\* so a diff artifact can exist for a name whose latest comparison passed.
C29_StaleDiffKept ==
  [][\A n \in Names :
       exists(files, DiffOf(n))
       => /\ last'.op # "clear_diffs" => exists(files', DiffOf(n))
          /\ (\/ /\ IsCompareWithBaseline(last')
                 /\ last'.args.name = n
                 /\ last'.ret.exc = "none"
                 /\ last'.ret.val[1]
              \/ /\ last'.op = "update_baseline"
                 /\ last'.args.name = n)
             => files'[DiffOf(n)] = files[DiffOf(n)]]_vars

\* The latest comparison of the name passed against its baseline, and the
\* artifact of an earlier failure is still in the diff directory.
C29_Witness ==
  /\ IsCompareWithBaseline(last)
  /\ last.existed
  /\ last.ret = Return(<<TRUE, Zero, None>>)
  /\ files[DiffOf(last.args.name)].kind = "image"
  /\ Decoded(DiffOf(last.args.name)).size = <<3, 1>>

(***************************************************************************)
(* The visual-regression suite (visual/tests/test_visual_regression.py):   *)
(* each test case takes a screenshot into its screenshot path and calls    *)
(* compare_with_baseline(screenshot_path, name, threshold) with the        *)
(* default save_diff=True.  SpecSuite runs every pair of test cases of the *)
(* suite as two concurrent workers, each once, on a baseline directory     *)
(* that holds a baseline for both, one or none of the two names.           *)
(***************************************************************************)
TestCase(screenshot_path, name, threshold) ==
  [screenshot_path |-> screenshot_path, name |-> name, threshold |-> threshold,
   save_diff |-> TRUE]

\* TestPageVisualRegression
PageCases ==
  <<TestCase("visual/temp/homepage_desktop.png", "homepage_desktop", TrueDiv(5, 100)),
    TestCase("visual/temp/homepage_mobile.png", "homepage_mobile", TrueDiv(5, 100)),
    TestCase("visual/temp/homepage_tablet.png", "homepage_tablet", TrueDiv(5, 100)),
    TestCase("visual/temp/product_page.png", "product_page", TrueDiv(5, 100)),
    TestCase("visual/temp/cart_page.png", "cart_page", TrueDiv(5, 100))>>

\* TestComponentVisualRegression
ComponentCases ==
  <<TestCase("visual/temp/navbar.png", "navbar", TrueDiv(3, 100)),
    TestCase("visual/temp/product_card.png", "product_card", TrueDiv(3, 100)),
    TestCase("visual/temp/footer.png", "footer", TrueDiv(3, 100)),
    TestCase("visual/temp/sidebar.png", "sidebar", TrueDiv(3, 100)),
    TestCase("visual/temp/carousel.png", "carousel", TrueDiv(5, 100))>>

\* TestModalVisualRegression
ModalCases ==
  <<TestCase("visual/temp/login_modal.png", "login_modal", TrueDiv(3, 100)),
    TestCase("visual/temp/signup_modal.png", "signup_modal", TrueDiv(3, 100)),
    TestCase("visual/temp/checkout_modal.png", "checkout_modal", TrueDiv(3, 100))>>

\* TestCrossBrowserVisualRegression: one instance per browser_name.
homepage_browser_names == <<"chromium", "firefox", "webkit">>
login_browser_names == <<"chromium", "firefox">>

test_homepage_cross_browser(browser_name) ==
  TestCase("visual/temp/homepage_" \o browser_name \o ".png",
           "homepage_" \o browser_name, TrueDiv(8, 100))

test_login_modal_cross_browser(browser_name) ==
  TestCase("visual/temp/login_" \o browser_name \o ".png",
           "login_" \o browser_name, TrueDiv(8, 100))

\* TestResponsiveVisualRegression: one instance per (width, height, name).
viewport_names ==
  <<"iphone_se", "iphone_8", "iphone_11", "ipad", "ipad_landscape", "desktop_hd",
    "desktop_2k">>

\* Variant: the baseline name leaves the viewport's name out.
test_homepage_responsive_one_name(name) ==
  TestCase("visual/temp/homepage_" \o name \o ".png", "homepage", TrueDiv(5, 100))

test_homepage_responsive(name) ==
  TestCase("visual/temp/homepage_" \o name \o ".png", "homepage_" \o name, TrueDiv(5, 100))

\* TestStateVisualRegression
StateCases ==
  <<TestCase("visual/temp/card_hover.png", "card_hover", TrueDiv(5, 100)),
    TestCase("visual/temp/active_category.png", "active_category", TrueDiv(5, 100)),
    TestCase("visual/temp/cart_with_items.png", "cart_with_items", TrueDiv(5, 100)),
    TestCase("visual/temp/empty_cart.png", "empty_cart", TrueDiv(3, 100))>>

\* Every test case of the suite that calls compare_with_baseline, in file
\* order.  (test_page_skeleton_visual and test_modal_transition_visual take a
\* screenshot into a path of their own and make no call; test_homepage_dark_mode
\* is skipped.)
SuiteCases ==
  PageCases \o ComponentCases \o ModalCases
  \o [k \in DOMAIN homepage_browser_names |->
        test_homepage_cross_browser(homepage_browser_names[k])]
  \o [k \in DOMAIN login_browser_names |->
        test_login_modal_cross_browser(login_browser_names[k])]
  \o [k \in DOMAIN viewport_names |-> test_homepage_responsive(viewport_names[k])]
  \o StateCases

\* The files the suite's calls can touch.
SuitePaths ==
  UNION {{SuiteCases[k].screenshot_path, BaselinePath(SuiteCases[k].name),
          DiffPath(SuiteCases[k].name)} : k \in DOMAIN SuiteCases}

\* What page.screenshot can capture: the page as the baseline shows it, or a
\* page that has changed.
Captures == {Solid("RGB", <<1, 1>>, <<255, 255, 255>>), Solid("RGB", <<1, 1>>, <<0, 0, 0>>)}

\* Two test cases of the suite start as workers; stored: those of the two
\* whose name has a baseline from an earlier run.
InitSuite ==
  /\ last = NoCall
  /\ \E k1 \in DOMAIN SuiteCases, k2 \in DOMAIN SuiteCases, stored \in SUBSET {1, 2} :
       /\ k1 < k2
       /\ workers = [i \in 1..2 |->
                       Worker("compare_with_baseline",
                              SuiteCases[IF i = 1 THEN k1 ELSE k2], "screenshot")]
       /\ files = [p \in SuitePaths |->
                     IF \E i \in stored :
                          p = BaselinePath(SuiteCases[IF i = 1 THEN k1 ELSE k2].name)
                     THEN ImageFile("PNG", Solid("RGB", <<1, 1>>, <<255, 255, 255>>))
                     ELSE Absent]

\* page.screenshot(path=screenshot_path): the capture is written as a PNG.
Screenshot(i) ==
  /\ workers[i].op = "compare_with_baseline" /\ workers[i].pc = "screenshot"
  /\ \E capture \in Captures :
       files' = Image_save(files, capture, workers[i].args.screenshot_path)
  /\ workers' = [workers EXCEPT ![i].pc = "exists"]
  /\ UNCHANGED last

NextSuite ==
  \/ \E i \in DOMAIN workers : Screenshot(i)
  \/ CwbStep

SpecSuite == InitSuite /\ [][NextSuite]_vars

\* The files a test case's call reads or writes in the two directories.
StoreFilesOf(w) == {BaselineOf(w.args.name), DiffOf(w.args.name)}

\* C30: the test cases of the suite use baseline names and screenshot paths
\* that no other test case uses: two test cases that run concurrently, each
\* once, share no baseline file and no diff artifact, are never both in the
\* bootstrap branch for one baseline file, and each ends as it would alone:
\* a bootstrap stores its own screenshot, a comparison returns the verdict
\* on its own baseline and screenshot.
C30_SuiteNamesUnique ==
  /\ \A i \in DOMAIN workers, j \in DOMAIN workers :
       i # j
       => /\ workers[i].args.name # workers[j].args.name
          /\ workers[i].args.screenshot_path # workers[j].args.screenshot_path
          /\ StoreFilesOf(workers[i]) \cap StoreFilesOf(workers[j]) = {}
          /\ ~(/\ workers[i].pc \in {"save_baseline", "save", "write"}
               /\ workers[j].pc \in {"save_baseline", "save", "write"}
               /\ BaselineOf(workers[i].args.name) = BaselineOf(workers[j].args.name))
  /\ \A i \in DOMAIN workers :
       workers[i].pc = "done"
       => IF workers[i].existed
          THEN LET v == Verdict(files[BaselineOf(workers[i].args.name)],
                                files[workers[i].args.screenshot_path],
                                workers[i].args.threshold)
               IN  /\ workers[i].ret.exc = "none"
                   /\ workers[i].ret.val[1] = v.val[1]
                   /\ workers[i].ret.val[2] = v.val[2]
                   /\ workers[i].ret.val[3] = (IF v.val[1] THEN None
                                               ELSE DiffOf(workers[i].args.name))
                   /\ ~v.val[1] => exists(files, DiffOf(workers[i].args.name))
          ELSE /\ workers[i].ret = Return(<<TRUE, Zero, None>>)
               /\ files[BaselineOf(workers[i].args.name)].kind = "image"
               /\ Decoded(BaselineOf(workers[i].args.name))
                    = Decoded(workers[i].args.screenshot_path)

\* Two test cases have run concurrently, test_homepage_visual_desktop failing
\* against its stored baseline and the desktop_hd instance of
\* test_homepage_responsive bootstrapping its own.
C30_Witness ==
  /\ DOMAIN workers = {1, 2}
  /\ workers[1].pc = "done" /\ workers[2].pc = "done"
  /\ workers[1].args.name = "homepage_desktop"
  /\ workers[2].args.name = "homepage_desktop_hd"
  /\ workers[1].existed /\ ~workers[1].ret.val[1]
  /\ ~workers[2].existed
  /\ exists(files, "visual/diffs/homepage_desktop_diff.png")
  /\ exists(files, "visual/baselines/homepage_desktop_hd.png")

====
